---- MODULE Spec2Model ----
(***************************************************************************)
(* A model of the copperline line editor: the token parser (parser.rs),    *)
(* the instruction interpreter (instr.rs), the text buffer (buffer.rs),    *)
(* the history cursor (history.rs), one edit cycle (edit.rs) and the       *)
(* read/edit loop (run.rs).                                                *)
(*                                                                         *)
(* Bytes and characters are integers (a character is its code point), a    *)
(* string is a sequence of characters.                                     *)
(***************************************************************************)
EXTENDS Integers, Sequences, FiniteSets, TLC

VARIABLES ctx, io, pc, res, stream

vars == <<ctx, io, pc, res, stream>>

----------------------------------------------------------------------------
(* Generic helpers                                                          *)

Min(a, b) == IF a < b THEN a ELSE b

\* Option values
None == [some |-> FALSE]

Some(v) == [some |-> TRUE, v |-> v]

\* all sequences over S of length 0..n
SeqsUpTo(S, n) == UNION {[1..k -> S] : k \in 0..n}

RECURSIVE Repl(_, _)
\* n copies of the element x
Repl(x, n) == IF n <= 0 THEN <<>> ELSE <<x>> \o Repl(x, n - 1)

----------------------------------------------------------------------------
(* Characters: what the std and unicode crates compute for a code point    *)

\* char::len_utf8
len_utf8(c) == IF c < 128 THEN 1 ELSE IF c < 2048 THEN 2 ELSE IF c < 65536 THEN 3 ELSE 4

RECURSIVE str_len(_)
\* str::len: the length of a string in bytes
str_len(s) == IF s = <<>> THEN 0 ELSE len_utf8(Head(s)) + str_len(Tail(s))

\* char::is_whitespace (the White_Space code points)
is_whitespace(c) ==
    \/ c \in 9..13
    \/ c \in {32, 133, 160, 5760, 8232, 8233, 8239, 8287, 12288}
    \/ c \in 8192..8202

\* combining marks of the ranges used here (Grapheme_Extend, width 0)
is_extend(c) == c \in 768..879

\* control characters: a grapheme of their own, display width 0
is_control(c) == c < 32 \/ c \in 127..159

\* East Asian wide characters of the ranges used here (display width 2)
is_wide(c) == c \in 4352..4447 \/ c \in 11904..42191 \/ c \in 44032..55203 \/ c \in 65281..65376

\* char::is_alphanumeric
is_alphanumeric(c) ==
    \/ c \in 48..57 \/ c \in 65..90 \/ c \in 97..122
    \/ (c >= 192 /\ ~is_whitespace(c) /\ ~is_extend(c) /\ c \notin {215, 247}
        /\ c \notin 8192..12287)

\* UnicodeWidthChar::width, with None (control characters) counted as 0
char_width(c) == IF is_control(c) \/ is_extend(c) THEN 0 ELSE IF is_wide(c) THEN 2 ELSE 1

RECURSIVE str_width(_)
\* UnicodeWidthStr::width
str_width(s) == IF s = <<>> THEN 0 ELSE char_width(Head(s)) + str_width(Tail(s))

RECURSIVE grapheme_len(_, _)
\* the number of characters of s that extend the grapheme begun by prev
grapheme_len(prev, s) ==
    IF s = <<>> THEN 0
    ELSE IF is_control(prev) THEN (IF prev = 13 /\ Head(s) = 10 THEN 1 ELSE 0)
    ELSE IF is_extend(Head(s)) THEN 1 + grapheme_len(Head(s), Tail(s))
    ELSE 0

RECURSIVE graphemes(_)
\* the first cluster of s, of n characters, followed by the clusters of the rest
graphemes_split(s, n) == <<SubSeq(s, 1, n)>> \o graphemes(SubSeq(s, n + 1, Len(s)))

\* UnicodeSegmentation::graphemes(s, true): the extended grapheme clusters
graphemes(s) ==
    IF s = <<>> THEN <<>> ELSE graphemes_split(s, 1 + grapheme_len(Head(s), Tail(s)))

\* Iterator::nth on a sequence g of clusters
nth(g, k) == IF k >= 0 /\ k < Len(g) THEN Some(g[k + 1]) ELSE None

\* Iterator::nth on the graphemes of s
grapheme_nth(s, k) == nth(graphemes(s), k)

RECURSIVE char_index(_, _)
\* the number of characters before byte offset b of s, or -1 when b is not a
\* character boundary of s (the std String operations panic there)
char_index(s, b) ==
    IF b = 0 THEN 0
    ELSE IF b < 0 \/ s = <<>> THEN -1
    ELSE LET r == char_index(Tail(s), b - len_utf8(Head(s)))
         IN  IF r = -1 THEN -1 ELSE r + 1

----------------------------------------------------------------------------
(* buffer.rs: Position and Buffer                                           *)

Position(b, c) == [byte_pos |-> b, char_pos |-> c]

\* Position::set_to_end_of_str
set_to_end_of_str(s) == Position(str_len(s), str_width(s))

\* Position::increase_by_char
increase_by_char(p, c) == Position(p.byte_pos + len_utf8(c), p.char_pos + 1)

\* derived Ord of Position: byte_pos first, then char_pos
pos_less(p, q) ==
    p.byte_pos < q.byte_pos \/ (p.byte_pos = q.byte_pos /\ p.char_pos < q.char_pos)

\* Buffer::new; fault records a panic or a non-terminating loop of an operation
NewBuffer == [front_buf |-> <<>>, back_buf |-> <<>>, pos |-> Position(0, 0), fault |-> "none"]

Faulted(b, f) == [b EXCEPT !.fault = IF b.fault = "none" THEN f ELSE b.fault]

\* Position::decrease_by_str applied to the buffer's position (usize subtraction)
decrease_by_str(b, s) ==
    IF b.pos.byte_pos < str_len(s) \/ b.pos.char_pos < str_width(s)
    THEN Faulted(b, "panic")
    ELSE [b EXCEPT !.pos = Position(b.pos.byte_pos - str_len(s), b.pos.char_pos - str_width(s))]

\* Buffer::swap
swap(b) ==
    [b EXCEPT !.front_buf = b.back_buf, !.back_buf = b.front_buf,
              !.pos = set_to_end_of_str(b.back_buf)]

\* Buffer::replace
replace(b, s) == [b EXCEPT !.front_buf = s, !.pos = set_to_end_of_str(s)]

\* String::insert of c before character index i (-1: not a character boundary)
string_insert(b, i, c) ==
    IF i = -1 \/ i > Len(b.front_buf) THEN Faulted(b, "panic")
    ELSE [b EXCEPT !.front_buf = SubSeq(b.front_buf, 1, i) \o <<c>>
                                   \o SubSeq(b.front_buf, i + 1, Len(b.front_buf))]

\* Position::increase_by_char applied to the cursor of b
advance_cursor(b, c) ==
    IF b.fault # "none" THEN b ELSE [b EXCEPT !.pos = increase_by_char(b.pos, c)]

\* insert_char_at_cursor that forgets to advance the cursor
insert_char_no_advance(b, c) ==
    IF b.fault # "none" THEN b
    ELSE string_insert(b, char_index(b.front_buf, b.pos.byte_pos), c)

\* String::insert followed by Position::increase_by_char
insert_char_at_cursor(b, c) ==
    IF b.fault # "none" THEN b
    ELSE advance_cursor(string_insert(b, char_index(b.front_buf, b.pos.byte_pos), c), c)

RECURSIVE insert_chars_at_cursor(_, _)
\* Buffer::insert_chars_at_cursor
insert_chars_at_cursor(b, s) ==
    IF s = <<>> THEN b ELSE insert_chars_at_cursor(insert_char_at_cursor(b, Head(s)), Tail(s))

\* String::remove at the cursor's byte offset
string_remove(b, i) ==
    IF i = -1 \/ i >= Len(b.front_buf) THEN Faulted(b, "panic")
    ELSE [b EXCEPT !.front_buf = SubSeq(b.front_buf, 1, i)
                                   \o SubSeq(b.front_buf, i + 2, Len(b.front_buf))]

\* String::remove at the cursor's byte offset
remove_at_cursor(b) ==
    IF b.fault # "none" THEN b
    ELSE string_remove(b, char_index(b.front_buf, b.pos.byte_pos))

\* the position one grapheme g before the cursor (Option::map in prev_pos)
pos_before(b, g) ==
    IF g.some THEN Some(Position(b.pos.byte_pos - str_len(g.v), b.pos.char_pos - 1)) ELSE None

\* Buffer::prev_pos
prev_pos(b) ==
    IF b.pos.char_pos = 0 THEN None
    ELSE pos_before(b, grapheme_nth(b.front_buf, b.pos.char_pos - 1))

\* pos_after that steps over the first character of the grapheme only
pos_after_one_char(b, g) ==
    IF g.some THEN Some(Position(b.pos.byte_pos + len_utf8(g.v[1]), b.pos.char_pos + 1)) ELSE None

\* the position one grapheme g after the cursor (Option::map in next_pos)
pos_after(b, g) ==
    IF g.some THEN Some(Position(b.pos.byte_pos + str_len(g.v), b.pos.char_pos + 1)) ELSE None

\* Buffer::next_pos
next_pos(b) == pos_after(b, grapheme_nth(b.front_buf, b.pos.char_pos))

\* the first character of an optional grapheme (Option::and_then in cp_after)
first_char(g) == IF g.some THEN Some(g.v[1]) ELSE None

\* Buffer::cp_after
cp_after(b) == first_char(grapheme_nth(b.front_buf, b.pos.char_pos))

\* An operation that returns bool yields [b |-> buffer, ok |-> returned value]
Ret(b, ok) == [b |-> b, ok |-> ok]

\* the `if let Some(pos)` of move_left and move_right; a position before the
\* start of the string is a usize underflow
move_to_opt(b, p) ==
    IF b.fault # "none" \/ ~p.some THEN Ret(b, FALSE)
    ELSE IF p.v.byte_pos < 0 THEN Ret(Faulted(b, "panic"), FALSE)
    ELSE Ret([b EXCEPT !.pos = p.v], TRUE)

\* Buffer::move_left
move_left(b) == move_to_opt(b, prev_pos(b))

\* Buffer::move_right
move_right(b) == move_to_opt(b, next_pos(b))

\* the removal after a successful move_left m
remove_if_moved(m) == IF m.ok THEN Ret(remove_at_cursor(m.b), TRUE) ELSE Ret(m.b, FALSE)

\* Buffer::delete_char_left_of_cursor
delete_char_left_of_cursor(b) == remove_if_moved(move_left(b))

\* Buffer::delete_char_right_of_cursor
delete_char_right_of_cursor(b) ==
    IF b.fault = "none" /\ b.pos.byte_pos < str_len(b.front_buf)
    THEN Ret(remove_at_cursor(b), TRUE)
    ELSE Ret(b, FALSE)

\* Buffer::replace_chars_at_cursor
replace_chars_at_cursor(b, s) ==
    decrease_by_str(insert_chars_at_cursor(delete_char_right_of_cursor(b).b, s), s)

\* the move_left of exclude_eol after its move_right r
step_back(r) == Ret(move_left(r.b).b, r.ok)

\* Buffer::exclude_eol
exclude_eol(b) == step_back(move_right(b))

\* Buffer::move_start
move_start(b) == [b EXCEPT !.pos = Position(0, 0)]

\* Buffer::move_end
move_end(b) == [b EXCEPT !.pos = set_to_end_of_str(b.front_buf)]

\* drain that forgets to reset the position
drain_keep_pos(b) == [b EXCEPT !.front_buf = <<>>]

\* Buffer::drain: the buffer left behind (the returned string is front_buf)
drain(b) == [b EXCEPT !.front_buf = <<>>, !.pos = Position(0, 0)]

\* is_empty that never reports an empty buffer
is_empty_never(b) == FALSE

\* Buffer::is_empty
is_empty(b) == b.front_buf = <<>>

----------------------------------------------------------------------------
(* buffer.rs: word motions, character search, delete range                  *)

\* is_vi_keyword
is_vi_keyword(c) == c = 95 \/ is_alphanumeric(c)

\* the closures advance (and, reversed, go_back) of the word motions
advance(b, direction) == IF direction = "Right" THEN move_right(b) ELSE move_left(b)

go_back(b, direction) == IF direction = "Right" THEN move_left(b) ELSE move_right(b)

\* the initial State of vi_move_word for the character under the cursor
word_state(c) ==
    IF is_whitespace(c) THEN "Whitespace" ELSE IF is_vi_keyword(c) THEN "Keyword" ELSE "NonKeyword"

\* the match on (state, c) in the loop of vi_move_word: whether the loop
\* returns true at character c
word_found(c, state, move_mode) ==
    IF state = "Whitespace" THEN ~is_whitespace(c)
    ELSE IF is_whitespace(c) THEN FALSE
    ELSE IF state = "Keyword" THEN move_mode = "Keyword" /\ ~is_vi_keyword(c)
    ELSE move_mode = "Keyword" /\ is_vi_keyword(c)

\* the match on (state, c) in the loop of vi_move_word: the state it continues in
word_next_state(c, state) == IF is_whitespace(c) THEN "Whitespace" ELSE state

RECURSIVE vi_move_word_loop(_, _, _, _)
\* the body of the loop that returns true at the end of the buffer, the cursor
\* having moved there
vi_move_word_at_moved(b, c, state, move_mode, direction) ==
    IF ~c.some THEN Ret(b, TRUE)
    ELSE IF word_found(c.v, state, move_mode) THEN Ret(b, TRUE)
    ELSE vi_move_word_loop(b, word_next_state(c.v, state), move_mode, direction)

\* the body of the loop of vi_move_word at the character c after the cursor
vi_move_word_at(b, c, state, move_mode, direction) ==
    IF ~c.some THEN Ret(b, FALSE)
    ELSE IF word_found(c.v, state, move_mode) THEN Ret(b, TRUE)
    ELSE vi_move_word_loop(b, word_next_state(c.v, state), move_mode, direction)

\* the loop of vi_move_word after its advance a
vi_move_word_moved(a, state, move_mode, direction) ==
    IF ~a.ok THEN Ret(a.b, FALSE)
    ELSE vi_move_word_at(a.b, cp_after(a.b), state, move_mode, direction)

\* the while loop of Buffer::vi_move_word
vi_move_word_loop(b, state, move_mode, direction) ==
    vi_move_word_moved(advance(b, direction), state, move_mode, direction)

\* vi_move_word once the character c under the cursor is known
vi_move_word_from(b, c, move_mode, direction) ==
    IF ~c.some THEN Ret(b, FALSE)
    ELSE vi_move_word_loop(b, word_state(c.v), move_mode, direction)

\* Buffer::vi_move_word
vi_move_word(b, move_mode, direction) ==
    vi_move_word_from(b, cp_after(b), move_mode, direction)

\* move_word that takes only whitespace as a word boundary
move_word_as_ws(b) == vi_move_word(b, "Whitespace", "Right")

\* Buffer::move_word
move_word(b) == vi_move_word(b, "Keyword", "Right")

\* Buffer::move_word_ws
move_word_ws(b) == vi_move_word(b, "Whitespace", "Right")

\* Buffer::move_to_end_of_word_back
move_to_end_of_word_back(b) == vi_move_word(b, "Keyword", "Left")

\* Buffer::move_to_end_of_word_ws_back
move_to_end_of_word_ws_back(b) == vi_move_word(b, "Whitespace", "Left")

\* the match on (state, c) in the loop of vi_move_word_end: whether the loop
\* steps back and returns true at character c
word_end_found(c, state) ==
    \/ state = "EndOnWord" /\ ~is_vi_keyword(c)
    \/ state = "EndOnWhitespace" /\ is_whitespace(c)
    \/ state = "EndOnOther" /\ (is_whitespace(c) \/ is_vi_keyword(c))

\* the match on (state, c) in the loop of vi_move_word_end: the next state
word_end_next_state(c, state, move_mode) ==
    IF state # "Whitespace" THEN state
    ELSE IF is_whitespace(c) THEN "Whitespace"
    ELSE IF move_mode = "Keyword" /\ is_vi_keyword(c) THEN "EndOnWord"
    ELSE IF move_mode = "Whitespace" THEN "EndOnWhitespace"
    ELSE "EndOnOther"

RECURSIVE vi_move_word_end_loop(_, _, _, _)
\* the body of the loop of vi_move_word_end at the character c after the cursor
vi_move_word_end_at(b, c, state, move_mode, direction) ==
    IF ~c.some THEN Ret(b, FALSE)
    ELSE IF word_end_found(c.v, state) THEN Ret(go_back(b, direction).b, TRUE)
    ELSE vi_move_word_end_loop(b, word_end_next_state(c.v, state, move_mode),
                               move_mode, direction)

\* the loop of vi_move_word_end after its advance a
vi_move_word_end_moved(a, state, move_mode, direction) ==
    IF ~a.ok THEN Ret(a.b, FALSE)
    ELSE vi_move_word_end_at(a.b, cp_after(a.b), state, move_mode, direction)

\* the while loop of Buffer::vi_move_word_end
vi_move_word_end_loop(b, state, move_mode, direction) ==
    vi_move_word_end_moved(advance(b, direction), state, move_mode, direction)

\* Buffer::vi_move_word_end
vi_move_word_end(b, move_mode, direction) ==
    vi_move_word_end_loop(b, "Whitespace", move_mode, direction)

\* Buffer::move_to_end_of_word
move_to_end_of_word(b) == vi_move_word_end(b, "Keyword", "Right")

\* Buffer::move_to_end_of_word_ws
move_to_end_of_word_ws(b) == vi_move_word_end(b, "Whitespace", "Right")

\* move_word_back that takes blanks as the only word boundaries
move_word_back_as_ws(b) == vi_move_word_end(b, "Whitespace", "Left")

\* Buffer::move_word_back
move_word_back(b) == vi_move_word_end(b, "Keyword", "Left")

\* Buffer::move_word_ws_back
move_word_ws_back(b) == vi_move_word_end(b, "Whitespace", "Left")

\* Buffer::move_to_pos
move_to_pos(b, pos) ==
    IF pos.byte_pos > str_len(b.front_buf) THEN Ret(move_end(b), FALSE)
    ELSE Ret([b EXCEPT !.pos = pos], TRUE)

RECURSIVE move_to_char(_, _, _)
\* the body of the loop of move_to_char at the character c after the cursor
move_to_char_at(b, c, target_c, direction) ==
    IF ~c.some THEN Ret(b, FALSE)
    ELSE IF c.v = target_c THEN Ret(b, TRUE)
    ELSE move_to_char(b, target_c, direction)

\* the loop of move_to_char after its advance a
move_to_char_moved(a, target_c, direction) ==
    IF ~a.ok THEN Ret(a.b, FALSE)
    ELSE move_to_char_at(a.b, cp_after(a.b), target_c, direction)

\* Buffer::move_to_char
move_to_char(b, target_c, direction) ==
    move_to_char_moved(advance(b, direction), target_c, direction)

RECURSIVE move_to_char_loop(_, _, _, _, _)
\* one round of the for loop after its move_to_char m
move_to_char_found(m, pos, target_c, direction, count) ==
    IF ~m.ok THEN Ret(move_to_pos(m.b, pos).b, FALSE)
    ELSE move_to_char_loop(m.b, pos, target_c, direction, count - 1)

\* the for loop of Buffer::move_to_char_right and move_to_char_left
move_to_char_loop(b, pos, target_c, direction, count) ==
    IF count = 0 THEN Ret(b, TRUE)
    ELSE move_to_char_found(move_to_char(b, target_c, direction), pos, target_c,
                            direction, count)

\* Buffer::move_to_char_right
move_to_char_right(b, target_c, count) == move_to_char_loop(b, b.pos, target_c, "Right", count)

\* Buffer::move_to_char_left
move_to_char_left(b, target_c, count) == move_to_char_loop(b, b.pos, target_c, "Left", count)

RECURSIVE delete_to_pos_loop(_, _)
\* one round of the loop after its delete_char_left_of_cursor d; the loop never
\* ends when the cursor cannot move left although it is right of end_pos
delete_to_pos_deleted(d, end_pos) ==
    IF ~d.ok /\ d.b.fault = "none" THEN Faulted(d.b, "hang")
    ELSE delete_to_pos_loop(d.b, end_pos)

\* the while loop of Buffer::delete_to_pos
delete_to_pos_loop(b, end_pos) ==
    IF b.fault # "none" \/ ~pos_less(end_pos, b.pos) THEN b
    ELSE delete_to_pos_deleted(delete_char_left_of_cursor(b), end_pos)

\* Buffer::delete_to_pos
delete_to_pos(b, pos) ==
    IF b.pos = pos THEN b
    ELSE IF pos_less(b.pos, pos)
         THEN delete_to_pos_loop(move_to_pos(b, pos).b, b.pos)
         ELSE delete_to_pos_loop(move_to_pos(b, b.pos).b, pos)

\* whether the optional character c is whitespace
on_whitespace(c) == c.some /\ is_whitespace(c.v)

\* DeleteContext::new (Buffer::start_delete): what the context records
start_delete(b) ==
    [was_on_whitespace |-> on_whitespace(cp_after(b)), start_pos |-> b.pos]

\* DeleteContext::delete
dc_delete(dc, b) == delete_to_pos(b, dc.start_pos)

----------------------------------------------------------------------------
(* parser.rs                                                                *)

\* Token: a named control token or a decoded text run
Tok(name) == [t |-> name]

Text(s) == [t |-> "Text", text |-> s]

\* ParseResult<Token>
ParseSuccess(token, n) == [r |-> "Ok", token |-> token, len |-> n]

ParseError(n) == [r |-> "Error", len |-> n]

Incomplete == [r |-> "Incomplete"]

\* the tokens of bytes 0..27 in the table of match_head
HeadNames ==
    <<"Null", "CtrlA", "CtrlB", "CtrlC", "CtrlD", "CtrlE", "CtrlF", "CtrlG", "CtrlH", "Tab",
      "CtrlJ", "CtrlK", "CtrlL", "Enter", "CtrlN", "CtrlO", "CtrlP", "CtrlQ", "CtrlR",
      "CtrlS", "CtrlT", "CtrlU", "CtrlV", "CtrlW", "CtrlX", "CtrlY", "CtrlZ", "Esc">>

\* match_head
match_head(i) ==
    IF i \in 0..27 THEN Some(Tok(HeadNames[i + 1]))
    ELSE IF i = 127 THEN Some(Tok("Backspace"))
    ELSE None

\* parse_char: the byte at offset off (counted from 0), if there is one
parse_char(vec, off) ==
    IF off >= Len(vec) THEN Incomplete ELSE ParseSuccess(vec[off + 1], off + 1)

\* parse_esc_bracket without the additional byte of an extended escape
parse_esc_bracket_eager(vec) ==
    LET c == parse_char(vec, 2)
    IN  IF c.r # "Ok" THEN Incomplete
        ELSE IF c.token = 65 THEN ParseSuccess(Tok("EscBracketA"), 3)
        ELSE IF c.token = 66 THEN ParseSuccess(Tok("EscBracketB"), 3)
        ELSE IF c.token = 67 THEN ParseSuccess(Tok("EscBracketC"), 3)
        ELSE IF c.token = 68 THEN ParseSuccess(Tok("EscBracketD"), 3)
        ELSE IF c.token = 70 THEN ParseSuccess(Tok("EscBracketF"), 3)
        ELSE IF c.token = 72 THEN ParseSuccess(Tok("EscBracketH"), 3)
        ELSE ParseError(2)

\* parse_esc_bracket
parse_esc_bracket(vec) ==
    LET c == parse_char(vec, 2)
        d == parse_char(vec, 3)
    IN  IF c.r # "Ok" THEN Incomplete
        ELSE IF c.token \in 48..57
             THEN IF d.r # "Ok" THEN Incomplete
                  ELSE IF c.token = 51 /\ d.token = 126
                       THEN ParseSuccess(Tok("EscBracket3T"), 4)
                       ELSE ParseError(4)
        ELSE IF c.token = 65 THEN ParseSuccess(Tok("EscBracketA"), 3)
        ELSE IF c.token = 66 THEN ParseSuccess(Tok("EscBracketB"), 3)
        ELSE IF c.token = 67 THEN ParseSuccess(Tok("EscBracketC"), 3)
        ELSE IF c.token = 68 THEN ParseSuccess(Tok("EscBracketD"), 3)
        ELSE IF c.token = 70 THEN ParseSuccess(Tok("EscBracketF"), 3)
        ELSE IF c.token = 72 THEN ParseSuccess(Tok("EscBracketH"), 3)
        ELSE ParseError(2)

\* parse_esc
parse_esc(vec) ==
    LET c == parse_char(vec, 1)
    IN  IF c.r # "Ok" THEN Incomplete
        ELSE IF c.token = 91 THEN parse_esc_bracket(vec)
        ELSE ParseError(2)

\* the number of leading bytes of vec below 0x80
RECURSIVE ascii_prefix(_)
ascii_prefix(vec) ==
    IF vec = <<>> \/ Head(vec) >= 128 THEN 0 ELSE 1 + ascii_prefix(Tail(vec))

\* the ASCII decoder: the bytes before the first byte >= 0x80 are decoded (a
\* byte is its own code point), and that byte, when there is one, is the error
ascii_feed(vec, n) == [offset |-> n, text |-> SubSeq(vec, 1, n), err |-> n < Len(vec)]

\* the length of the UTF-8 sequence that starts with the byte b, 0 when b
\* starts none
utf8_len(b) ==
    IF b < 128 THEN 1
    ELSE IF b \in 194..223 THEN 2
    ELSE IF b \in 224..239 THEN 3
    ELSE IF b \in 240..244 THEN 4
    ELSE 0

\* c may follow the lead byte b as the second byte of a sequence
utf8_second_ok(b, c) ==
    CASE b = 224 -> c \in 160..191
      [] b = 237 -> c \in 128..159
      [] b = 240 -> c \in 144..191
      [] b = 244 -> c \in 128..143
      [] OTHER -> c \in 128..191

\* the bytes of vec that are there after the lead byte at i continue a sequence
\* of n bytes
utf8_cont_ok(vec, i, n) ==
    \A k \in 1..(n - 1) :
        i + k <= Len(vec) =>
            IF k = 1 THEN utf8_second_ok(vec[i], vec[i + 1]) ELSE vec[i + k] \in 128..191

\* the code point of the sequence of n bytes at i
utf8_cp(vec, i, n) ==
    CASE n = 1 -> vec[i]
      [] n = 2 -> (vec[i] - 192) * 64 + (vec[i + 1] - 128)
      [] n = 3 -> (vec[i] - 224) * 4096 + (vec[i + 1] - 128) * 64 + (vec[i + 2] - 128)
      [] n = 4 -> (vec[i] - 240) * 262144 + (vec[i + 1] - 128) * 4096
                  + (vec[i + 2] - 128) * 64 + (vec[i + 3] - 128)

RECURSIVE utf8_feed(_, _, _)
RECURSIVE utf8_feed_at(_, _, _, _)
\* the UTF-8 decoder from the byte at i on, text decoded so far: offset counts
\* the bytes of the whole characters decoded; an invalid byte is the error, a
\* sequence cut short by the end of vec is left unprocessed without error
utf8_feed(vec, i, text) ==
    IF i > Len(vec) THEN [offset |-> Len(vec), text |-> text, err |-> FALSE]
    ELSE utf8_feed_at(vec, i, text, utf8_len(vec[i]))

utf8_feed_at(vec, i, text, n) ==
    IF n = 0 \/ ~utf8_cont_ok(vec, i, n) THEN [offset |-> i - 1, text |-> text, err |-> TRUE]
    ELSE IF i + n - 1 > Len(vec) THEN [offset |-> i - 1, text |-> text, err |-> FALSE]
    ELSE utf8_feed(vec, i + n, Append(text, utf8_cp(vec, i, n)))

\* RawDecoder::raw_feed of the decoder of enc, as parse uses it: offset is the
\* count of bytes processed, text the characters decoded, err whether the
\* decoder reported an error
raw_feed(enc, vec) ==
    IF enc = "UTF_8" THEN utf8_feed(vec, 1, <<>>) ELSE ascii_feed(vec, ascii_prefix(vec))

\* parse
parse(vec, enc) ==
    LET i == parse_char(vec, 0)
        h == match_head(i.token)
        d == raw_feed(enc, vec)
    IN  IF i.r # "Ok" THEN Incomplete
        ELSE IF h.some /\ h.v.t = "Esc" /\ Len(vec) > 1 THEN parse_esc(vec)
        ELSE IF h.some THEN ParseSuccess(h.v, 1)
        ELSE IF d.err THEN ParseError(d.offset)
        ELSE ParseSuccess(Text(d.text), d.offset)

----------------------------------------------------------------------------
(* instr.rs                                                                 *)

\* an Instr and its parameter (target character, text, digit or move type)
Instr(name) == [i |-> name]

InstrArg(name, arg) == [i |-> name, arg |-> arg]

\* ViMode; k is the CharMoveType of the three char-search modes
ViMode(m) == [m |-> m, k |-> "None"]

ViCharMode(m, k) == [m |-> m, k |-> k]

\* emacs_mode
emacs_mode(token) ==
    CASE token.t = "Enter" -> Instr("Done")
      [] token.t \in {"Backspace", "CtrlH"} -> Instr("DeleteCharLeftOfCursor")
      [] token.t = "EscBracket3T" -> Instr("DeleteCharRightOfCursor")
      [] token.t = "CtrlD" -> Instr("DeleteCharRightOfCursorOrEOF")
      [] token.t \in {"EscBracketA", "CtrlP"} -> Instr("HistoryPrev")
      [] token.t \in {"EscBracketB", "CtrlN"} -> Instr("HistoryNext")
      [] token.t \in {"EscBracketC", "CtrlF"} -> Instr("MoveCursorRight")
      [] token.t \in {"EscBracketD", "CtrlB"} -> Instr("MoveCursorLeft")
      [] token.t \in {"CtrlA", "EscBracketH"} -> Instr("MoveCursorStart")
      [] token.t \in {"CtrlE", "EscBracketF"} -> Instr("MoveCursorEnd")
      [] token.t = "Text" -> InstrArg("InsertAtCursor", token.text)
      [] token.t = "CtrlC" -> Instr("Cancel")
      [] token.t = "CtrlL" -> Instr("Clear")
      [] OTHER -> Instr("Noop")

\* vi_common
vi_common(token) ==
    CASE token.t = "Enter" -> Instr("Done")
      [] token.t = "CtrlD" -> Instr("DoneOrEof")
      [] token.t = "Esc" -> Instr("NormalMode")
      [] token.t = "Backspace" -> Instr("DeleteCharLeftOfCursor")
      [] token.t = "EscBracket3T" -> Instr("DeleteCharRightOfCursor")
      [] token.t = "EscBracketA" -> Instr("HistoryPrev")
      [] token.t = "EscBracketB" -> Instr("HistoryNext")
      [] token.t = "EscBracketC" -> Instr("MoveCursorRight")
      [] token.t = "EscBracketD" -> Instr("MoveCursorLeft")
      [] token.t = "EscBracketH" -> Instr("MoveCursorStart")
      [] token.t = "EscBracketF" -> Instr("MoveCursorEnd")
      [] token.t = "CtrlC" -> Instr("Cancel")
      [] token.t = "CtrlL" -> Instr("Clear")
      [] OTHER -> Instr("Noop")

\* vi_insert_mode
vi_insert_mode(token) ==
    IF token.t = "Text" THEN InstrArg("InsertAtCursor", token.text) ELSE vi_common(token)

\* the motion and digit commands shared by vi_normal_mode and
\* vi_change_delete_common; other is the instruction of an unlisted text
vi_motion_table(text, other) ==
    CASE text = <<104>> -> Instr("MoveCursorLeft")
      [] text = <<108>> -> Instr("MoveCursorRight")
      [] text = <<36>> -> Instr("MoveCursorEnd")
      [] text = <<101>> -> Instr("MoveEndOfWordRight")
      [] text = <<69>> -> Instr("MoveEndOfWordWsRight")
      [] text = <<119>> -> Instr("MoveWordRight")
      [] text = <<87>> -> Instr("MoveWordWsRight")
      [] text = <<98>> -> Instr("MoveWordLeft")
      [] text = <<66>> -> Instr("MoveWordWsLeft")
      [] text = <<116>> -> InstrArg("MoveCharMode", "BeforeRight")
      [] text = <<84>> -> InstrArg("MoveCharMode", "BeforeLeft")
      [] text = <<102>> -> InstrArg("MoveCharMode", "Right")
      [] text = <<70>> -> InstrArg("MoveCharMode", "Left")
      [] Len(text) = 1 /\ text[1] \in 48..57 -> InstrArg("Digit", text[1] - 48)
      [] OTHER -> other

\* vi_normal_mode
vi_normal_mode(token) ==
    IF token.t # "Text" THEN vi_common(token)
    ELSE CASE token.text = <<106>> -> Instr("HistoryNext")
           [] token.text = <<107>> -> Instr("HistoryPrev")
           [] token.text = <<120>> -> Instr("DeleteCharRightOfCursor")
           [] token.text = <<115>> -> Instr("Substitute")
           [] token.text = <<114>> -> Instr("ReplaceMode")
           [] token.text = <<99>> -> Instr("ChangeMode")
           [] token.text = <<67>> -> Instr("ChangeToEnd")
           [] token.text = <<100>> -> Instr("DeleteMode")
           [] token.text = <<68>> -> Instr("DeleteToEnd")
           [] token.text = <<97>> -> Instr("Append")
           [] token.text = <<65>> -> Instr("AppendEnd")
           [] token.text = <<105>> -> Instr("Insert")
           [] token.text = <<73>> -> Instr("InsertStart")
           [] OTHER -> vi_motion_table(token.text, Instr("Noop"))

\* vi_replace_mode that hands a non-text token to vi_common
vi_replace_mode_common(token) ==
    IF token.t = "Text" THEN InstrArg("ReplaceAtCursor", token.text) ELSE vi_common(token)

\* vi_replace_mode
vi_replace_mode(token) ==
    IF token.t = "Text" THEN InstrArg("ReplaceAtCursor", token.text) ELSE Instr("NormalMode")

\* vi_move_char_mode
vi_move_char_mode(move_type, token) ==
    IF token.t # "Text" \/ token.text = <<>> THEN Instr("NormalMode")
    ELSE CASE move_type = "BeforeLeft" -> InstrArg("MoveBeforeCharLeft", token.text[1])
           [] move_type = "BeforeRight" -> InstrArg("MoveBeforeCharRight", token.text[1])
           [] move_type = "Left" -> InstrArg("MoveCharLeft", token.text[1])
           [] move_type = "Right" -> InstrArg("MoveCharRight", token.text[1])

\* vi_change_delete_common
vi_change_delete_common(token) ==
    IF token.t # "Text" THEN Instr("NormalMode")
    ELSE vi_motion_table(token.text, Instr("NormalMode"))

\* vi_change_mode
vi_change_mode(token) ==
    IF token.t # "Text" THEN Instr("NormalMode")
    ELSE IF token.text = <<99>> THEN Instr("ChangeLine")
    ELSE vi_change_delete_common(token)

\* vi_delete_mode
vi_delete_mode(token) ==
    IF token.t # "Text" THEN Instr("NormalMode")
    ELSE IF token.text = <<100>> THEN Instr("DeleteLine")
    ELSE vi_change_delete_common(token)

\* interpret_token
interpret_token(token, mode, vi_mode) ==
    IF mode = "Emacs" THEN emacs_mode(token)
    ELSE CASE vi_mode.m = "Insert" -> vi_insert_mode(token)
           [] vi_mode.m = "Normal" -> vi_normal_mode(token)
           [] vi_mode.m = "Replace" -> vi_replace_mode(token)
           [] vi_mode.m \in {"MoveChar", "DeleteMoveChar", "ChangeMoveChar"} ->
                  vi_move_char_mode(vi_mode.k, token)
           [] vi_mode.m = "Delete" -> vi_delete_mode(token)
           [] vi_mode.m = "Change" -> vi_change_mode(token)

----------------------------------------------------------------------------
(* u32 arithmetic of the repeat count. A u32 is kept as two 16-bit limbs,   *)
(* value = hi * 65536 + lo, so that every value up to u32::MAX is exact.    *)

LIMB == 65536

U32(hi, lo) == [hi |-> hi, lo |-> lo]

\* a small number as u32
u32_of(n) == U32(n \div LIMB, n % LIMB)

\* std::u32::MAX
U32_MAX == U32(LIMB - 1, LIMB - 1)

\* a <= b
u32_le(a, b) == a.hi < b.hi \/ (a.hi = b.hi /\ a.lo <= b.lo)

\* a - i for a digit i <= a
u32_sub_digit(a, i) ==
    IF a.lo >= i THEN U32(a.hi, a.lo - i) ELSE U32(a.hi - 1, a.lo + LIMB - i)

\* a / 10
u32_div10(a) == U32(a.hi \div 10, ((a.hi % 10) * LIMB + a.lo) \div 10)

\* a * 10 + i as the mathematical value: limbs, with the carry out of 32 bits
\* left in hi (hi >= LIMB exactly when the value exceeds u32::MAX)
u32_mul10_add(a, i) ==
    LET lo == a.lo * 10 + i IN U32(a.hi * 10 + lo \div LIMB, lo % LIMB)

\* the number of iterations of `for _ in 0..n`: every loop over the count
\* leaves at the first step that fails, which a line shorter than LIMB
\* characters reaches in fewer than LIMB iterations
loop_count(n) == IF n.hi > 0 THEN LIMB ELSE n.lo

\* the count after digit i without the guard: the product wraps at 32 bits
digit_count_wrapping(vi_count, i) ==
    U32(u32_mul10_add(vi_count, i).hi % LIMB, u32_mul10_add(vi_count, i).lo)

\* the arm (_, i) of Instr::Digit: the count after digit i
digit_count(vi_count, i) ==
    IF u32_le(vi_count, u32_div10(u32_sub_digit(U32_MAX, i)))
    THEN u32_mul10_add(vi_count, i)
    ELSE vi_count

----------------------------------------------------------------------------
(* history.rs: Cursor                                                       *)

\* Cursor::incr that steps past the oldest entry
incr_no_clamp(cur, len) ==
    IF cur.some THEN [cur |-> Some(cur.v + 1), flag |-> FALSE]
    ELSE IF len > 0 THEN [cur |-> Some(0), flag |-> TRUE]
    ELSE [cur |-> None, flag |-> FALSE]

\* Cursor::incr: the new index and the returned flag
incr(cur, len) ==
    IF cur.some THEN [cur |-> IF cur.v + 1 < len THEN Some(cur.v + 1) ELSE cur, flag |-> FALSE]
    ELSE IF len > 0 THEN [cur |-> Some(0), flag |-> TRUE]
    ELSE [cur |-> None, flag |-> FALSE]

\* Cursor::decr
decr(cur) ==
    IF cur.some /\ cur.v > 0 THEN [cur |-> Some(cur.v - 1), flag |-> FALSE]
    ELSE IF cur.some THEN [cur |-> None, flag |-> TRUE]
    ELSE [cur |-> None, flag |-> FALSE]

\* Cursor::get with History::get (index 0 is the most recent entry)
history_get(cur, history) ==
    IF cur.some /\ cur.v < Len(history) THEN Some(history[cur.v + 1]) ELSE None

----------------------------------------------------------------------------
(* edit.rs                                                                  *)

\* Result<String, Error>
Ok(s) == [kind |-> "Ok", val |-> s]

Err(e) == [kind |-> "Err", val |-> e]

\* EditCtx::new; the prompt only shapes the bytes written and is left out
NewEditCtx(history, enc, mode) ==
    [buf |-> NewBuffer, history |-> history, history_cursor |-> None, seq |-> <<>>,
     enc |-> enc, mode |-> mode, vi_mode |-> ViMode("Insert"), vi_count |-> u32_of(0)]

\* a set_next_vi_mode! whose every arm gives Normal
set_next_vi_mode_normal(c) == [c EXCEPT !.vi_mode = ViMode("Normal")]

\* set_next_vi_mode!
set_next_vi_mode(c) ==
    [c EXCEPT !.vi_mode = IF c.vi_mode.m \in {"Change", "ChangeMoveChar"}
                          THEN ViMode("Insert") ELSE ViMode("Normal")]

\* EditCtx::exclude_eol
ctx_exclude_eol(c) ==
    IF c.vi_mode = ViMode("Normal") THEN [c EXCEPT !.buf = exclude_eol(c.buf).b] ELSE c

\* the step of a history instruction (the block given to vi_repeat!)
history_step(c, m) ==
    LET e == IF m = "prev" THEN incr(c.history_cursor, Len(c.history)) ELSE decr(c.history_cursor)
        b1 == IF e.flag THEN swap(c.buf) ELSE c.buf
        s == history_get(e.cur, c.history)
    IN  [c |-> [c EXCEPT !.history_cursor = e.cur,
                         !.buf = IF s.some THEN replace(b1, s.v) ELSE b1],
         ok |-> e.flag]

\* the buffer operations repeated by vi_repeat!, by name
buf_step(b, op) ==
    CASE op = "delete_char_left_of_cursor" -> delete_char_left_of_cursor(b)
      [] op = "delete_char_right_of_cursor" -> delete_char_right_of_cursor(b)
      [] op = "move_left" -> move_left(b)
      [] op = "move_right" -> move_right(b)
      [] op = "move_end" -> Ret(move_end(b), FALSE)
      [] op = "move_start" -> Ret(move_start(b), FALSE)
      [] op = "move_to_end_of_word" -> move_to_end_of_word(b)
      [] op = "move_to_end_of_word_ws" -> move_to_end_of_word_ws(b)
      [] op = "move_word" -> move_word(b)
      [] op = "move_word_ws" -> move_word_ws(b)
      [] op = "move_word_back" -> move_word_back(b)
      [] op = "move_word_ws_back" -> move_word_ws_back(b)

\* the context after a buffer operation returned r
with_buf(c, r) == [c |-> [c EXCEPT !.buf = r.b], ok |-> r.ok]

\* the expressions repeated by vi_repeat!, by name, applied to the context
repeat_step(c, op) ==
    IF op \in {"prev", "next"} THEN history_step(c, op) ELSE with_buf(c, buf_step(c.buf, op))

\* a vi_repeat! loop that runs its expression once whatever the count
repeat_loop_once(c, op, n) == repeat_step(c, op).c

RECURSIVE repeat_loop(_, _, _)
\* `if !x { break; }` after the step r
repeat_break(r, op, n) == IF r.ok THEN repeat_loop(r.c, op, n - 1) ELSE r.c

\* `for _ in 0..n { if !x { break; } }`
repeat_loop(c, op, n) == IF n = 0 THEN c ELSE repeat_break(repeat_step(c, op), op, n)

\* `ctx.vi_count = 0` at the end of vi_repeat!
reset_count(d) == [d EXCEPT !.vi_count = u32_of(0)]

\* vi_repeat!(ctx, x)
vi_repeat(c, op) ==
    reset_count(IF c.vi_count = u32_of(0) THEN repeat_step(c, op).c
                ELSE repeat_loop(c, op, loop_count(c.vi_count)))

\* a vi_delete! that leaves the spanned text in place
delete_moved_no_delete(d, dc) == set_next_vi_mode(d)

\* the match on vi_mode of vi_delete! after the motion led to context d
delete_moved(d, dc) ==
    set_next_vi_mode(IF d.vi_mode.m \in {"Delete", "Change"}
                     THEN [d EXCEPT !.buf = dc_delete(dc, d.buf)] ELSE d)

\* vi_delete!(ctx with dc x)
vi_delete(c, dc, op) == delete_moved(vi_repeat(c, op), dc)

RECURSIVE replace_loop(_, _, _)
\* `if !step { break; } if !operation { break; }` after the step s
replace_break(s, text, n) ==
    IF ~s.ok THEN s.b ELSE replace_loop(replace_chars_at_cursor(s.b, text), text, n - 1)

\* `for _ in 1..n { if !step { break; } if !operation { break; } }` of ReplaceAtCursor
replace_loop(b, text, n) ==
    IF n <= 0 THEN b ELSE replace_break(exclude_eol(move_right(b).b), text, n)

\* the loop of vi_repeat!(ctx, operation, step) after the first operation gave b1
replace_rest(c, b1, text) ==
    [c EXCEPT !.buf = IF c.vi_count = u32_of(0) THEN b1
                      ELSE replace_loop(b1, text, loop_count(c.vi_count) - 1),
              !.vi_count = u32_of(0)]

\* vi_repeat!(ctx, operation, step) as used by ReplaceAtCursor
vi_repeat_replace(c, text) == replace_rest(c, replace_chars_at_cursor(c.buf, text), text)

\* the count handed to move_to_char_right / move_to_char_left
char_count(c) == IF c.vi_count = u32_of(0) THEN 1 ELSE loop_count(c.vi_count)

\* the outcome of one instruction
Cont(c, clear) == [c |-> c, halt |-> None, clear |-> clear]

Halt(c, r) == [c |-> c, halt |-> Some(r), clear |-> FALSE]

\* the match on vi_mode of the end-of-word arms after the motion led to d
end_of_word_moved(d, dc) ==
    ctx_exclude_eol(
        IF d.vi_mode.m \in {"Delete", "Change"}
        THEN set_next_vi_mode([d EXCEPT !.buf = dc_delete(dc, move_right(d.buf).b)])
        ELSE d)

\* the arms Instr::MoveEndOfWordRight and Instr::MoveEndOfWordWsRight
edit_end_of_word(c, op) == end_of_word_moved(vi_repeat(c, op), start_delete(c.buf))

\* `if !dc.started_on_whitespace() && move_right() { back; move_right(); }`
\* after the move_right r
change_word_back(dc, r, back) ==
    IF dc.was_on_whitespace \/ ~r.ok THEN r.b
    ELSE IF back = "move_to_end_of_word_back"
         THEN move_right(move_to_end_of_word_back(r.b).b).b
         ELSE move_right(move_to_end_of_word_ws_back(r.b).b).b

\* the Change arm without its special case: the range ends where the motion did
change_word_end_plain(dc, b, back) == b

\* the Change arm of the word-forward motions: the end of the deleted range
change_word_end(dc, b, back) ==
    IF dc.was_on_whitespace THEN b ELSE change_word_back(dc, move_right(b), back)

\* the match on vi_mode of the word-forward arms after the motion led to d
word_right_moved(d, dc, back) ==
    ctx_exclude_eol(set_next_vi_mode(
        CASE d.vi_mode.m = "Delete" -> [d EXCEPT !.buf = dc_delete(dc, d.buf)]
          [] d.vi_mode.m = "Change" ->
                 [d EXCEPT !.buf = dc_delete(dc, change_word_end(dc, d.buf, back))]
          [] OTHER -> d))

\* the arms Instr::MoveWordRight and Instr::MoveWordWsRight
edit_word_right(c, op, back) == word_right_moved(vi_repeat(c, op), start_delete(c.buf), back)

\* the buffer of the character-search arms after the search m; del tells
\* whether the mode is DeleteMoveChar or ChangeMoveChar
move_char_buf(kind, dc, del, m) ==
    CASE kind = "MoveCharRight" -> IF del THEN dc_delete(dc, move_right(m.b).b) ELSE m.b
      [] kind = "MoveCharLeft" -> IF del THEN dc_delete(dc, m.b) ELSE m.b
      [] kind = "MoveBeforeCharRight" ->
             IF ~m.ok THEN m.b
             ELSE IF del THEN dc_delete(dc, move_right(move_left(m.b).b).b)
             ELSE move_left(m.b).b
      [] kind = "MoveBeforeCharLeft" ->
             IF ~m.ok THEN m.b
             ELSE IF del THEN dc_delete(dc, move_right(m.b).b)
             ELSE move_right(m.b).b

\* `ctx.exclude_eol()` at the end of the arm Instr::MoveCharRight only
move_char_eol(kind, d) == IF kind = "MoveCharRight" THEN ctx_exclude_eol(d) ELSE d

\* the search of the character-search arms
move_char_search(c, kind, ch) ==
    IF kind \in {"MoveCharRight", "MoveBeforeCharRight"}
    THEN move_to_char_right(c.buf, ch, char_count(c))
    ELSE move_to_char_left(c.buf, ch, char_count(c))

\* the arms Instr::MoveCharRight/MoveCharLeft/MoveBeforeCharRight/MoveBeforeCharLeft
edit_move_char(c, kind, ch) ==
    move_char_eol(kind, set_next_vi_mode(
        [c EXCEPT !.buf = move_char_buf(kind, start_delete(c.buf),
                                        c.vi_mode.m \in {"DeleteMoveChar", "ChangeMoveChar"},
                                        move_char_search(c, kind, ch)),
                  !.vi_count = u32_of(0)]))

\* the arm Instr::DeleteCharRightOfCursorOrEOF after the deletion returned d
delete_or_eof(c, d) ==
    IF ~d.ok THEN Halt([c EXCEPT !.buf = d.b], Err("EndOfFile"))
    ELSE Cont([c EXCEPT !.buf = d.b], FALSE)

\* the arm Instr::MoveCursor(Start) with the count cleared and the cursor moved
cursor_start_moved(d, dc) ==
    IF d.vi_mode.m \in {"Delete", "Change"}
    THEN set_next_vi_mode([d EXCEPT !.buf = dc_delete(dc, d.buf)])
    ELSE d

\* the match on the instruction in edit
apply_instr(c, instr) ==
    LET i == instr.i
        zero == u32_of(0)
    IN  CASE i = "Done" -> Halt([c EXCEPT !.buf = drain(c.buf)], Ok(c.buf.front_buf))
          [] i = "DoneOrEof" ->
                 IF is_empty(c.buf) THEN Halt(c, Err("EndOfFile"))
                 ELSE Halt([c EXCEPT !.buf = drain(c.buf)], Ok(c.buf.front_buf))
          [] i = "DeleteCharLeftOfCursor" -> Cont(vi_repeat(c, "delete_char_left_of_cursor"), FALSE)
          [] i = "DeleteCharRightOfCursor" ->
                 Cont(ctx_exclude_eol(vi_repeat(c, "delete_char_right_of_cursor")), FALSE)
          [] i = "DeleteCharRightOfCursorOrEOF" ->
                 delete_or_eof(c, delete_char_right_of_cursor(c.buf))
          [] i = "DeleteLine" ->
                 Cont([c EXCEPT !.buf = drain(c.buf), !.vi_mode = ViMode("Normal"),
                                !.vi_count = zero], FALSE)
          [] i = "DeleteToEnd" ->
                 LET d == [c EXCEPT !.vi_count = zero, !.vi_mode = ViMode("Delete")]
                 IN  Cont(ctx_exclude_eol(vi_delete(d, start_delete(d.buf), "move_end")), FALSE)
          [] i = "ChangeLine" ->
                 Cont([c EXCEPT !.buf = drain(c.buf), !.vi_mode = ViMode("Insert"),
                                !.vi_count = zero], FALSE)
          [] i = "ChangeToEnd" ->
                 LET d == [c EXCEPT !.vi_count = zero, !.vi_mode = ViMode("Change")]
                 IN  Cont(ctx_exclude_eol(vi_delete(d, start_delete(d.buf), "move_end")), FALSE)
          [] i = "MoveCursorLeft" -> Cont(vi_delete(c, start_delete(c.buf), "move_left"), FALSE)
          [] i = "MoveCursorRight" ->
                 Cont(ctx_exclude_eol(vi_delete(c, start_delete(c.buf), "move_right")), FALSE)
          [] i = "MoveCursorStart" ->
                 Cont(cursor_start_moved([c EXCEPT !.vi_count = zero,
                                                   !.buf = move_start(c.buf)],
                                         start_delete(c.buf)), FALSE)
          [] i = "MoveCursorEnd" ->
                 LET d == [c EXCEPT !.vi_count = zero]
                 IN  Cont(ctx_exclude_eol(vi_delete(d, start_delete(d.buf), "move_end")), FALSE)
          [] i = "HistoryPrev" -> Cont(vi_repeat(c, "prev"), FALSE)
          [] i = "HistoryNext" -> Cont(vi_repeat(c, "next"), FALSE)
          [] i = "NormalMode" ->
                 Cont([c EXCEPT !.buf = IF c.vi_mode.m = "Insert" THEN move_left(c.buf).b
                                        ELSE c.buf,
                                !.vi_mode = ViMode("Normal"), !.vi_count = zero], FALSE)
          [] i = "ReplaceMode" -> Cont([c EXCEPT !.vi_mode = ViMode("Replace")], FALSE)
          [] i = "MoveCharMode" ->
                 Cont([c EXCEPT !.vi_mode =
                          CASE c.vi_mode.m = "Delete" -> ViCharMode("DeleteMoveChar", instr.arg)
                            [] c.vi_mode.m = "Change" -> ViCharMode("ChangeMoveChar", instr.arg)
                            [] OTHER -> ViCharMode("MoveChar", instr.arg)], FALSE)
          [] i = "DeleteMode" -> Cont([c EXCEPT !.vi_mode = ViMode("Delete")], FALSE)
          [] i = "ChangeMode" -> Cont([c EXCEPT !.vi_mode = ViMode("Change")], FALSE)
          [] i = "Insert" -> Cont([c EXCEPT !.vi_mode = ViMode("Insert")], FALSE)
          [] i = "InsertStart" ->
                 Cont([c EXCEPT !.vi_mode = ViMode("Insert"), !.buf = move_start(c.buf)], FALSE)
          [] i = "Append" ->
                 Cont([c EXCEPT !.vi_mode = ViMode("Insert"), !.buf = move_right(c.buf).b], FALSE)
          [] i = "AppendEnd" ->
                 Cont([c EXCEPT !.vi_mode = ViMode("Insert"), !.buf = move_end(c.buf)], FALSE)
          [] i = "Digit" ->
                 IF c.vi_count = zero /\ instr.arg = 0
                 THEN Cont(vi_delete(c, start_delete(c.buf), "move_start"), FALSE)
                 ELSE Cont([c EXCEPT !.vi_count = digit_count(c.vi_count, instr.arg)], FALSE)
          [] i = "MoveEndOfWordRight" -> Cont(edit_end_of_word(c, "move_to_end_of_word"), FALSE)
          [] i = "MoveEndOfWordWsRight" ->
                 Cont(edit_end_of_word(c, "move_to_end_of_word_ws"), FALSE)
          [] i = "MoveWordRight" ->
                 Cont(edit_word_right(c, "move_word", "move_to_end_of_word_back"), FALSE)
          [] i = "MoveWordWsRight" ->
                 Cont(edit_word_right(c, "move_word_ws", "move_to_end_of_word_ws_back"), FALSE)
          [] i = "MoveWordLeft" ->
                 Cont(vi_delete(c, start_delete(c.buf), "move_word_back"), FALSE)
          [] i = "MoveWordWsLeft" ->
                 Cont(vi_delete(c, start_delete(c.buf), "move_word_ws_back"), FALSE)
          [] i \in {"MoveCharRight", "MoveCharLeft", "MoveBeforeCharRight", "MoveBeforeCharLeft"} ->
                 Cont(edit_move_char(c, i, instr.arg), FALSE)
          [] i = "Substitute" ->
                 Cont([vi_repeat(c, "delete_char_right_of_cursor")
                          EXCEPT !.vi_mode = ViMode("Insert")], FALSE)
          [] i = "Noop" -> Cont(c, FALSE)
          [] i = "Cancel" -> Halt(c, Err("Cancel"))
          [] i = "Clear" -> Cont(c, TRUE)
          [] i = "InsertAtCursor" ->
                 Cont([c EXCEPT !.buf = insert_chars_at_cursor(c.buf, instr.arg)], FALSE)
          [] i = "ReplaceAtCursor" ->
                 Cont([vi_repeat_replace(c, instr.arg) EXCEPT !.vi_mode = ViMode("Normal")], FALSE)

\* drop the first n bytes of the pending sequence (Vec::remove(0), n times;
\* removing from an empty Vec panics)
consume(c, n) ==
    IF n > Len(c.seq) THEN [c EXCEPT !.seq = <<>>, !.buf = Faulted(c.buf, "panic")]
    ELSE [c EXCEPT !.seq = SubSeq(c.seq, n + 1, Len(c.seq))]

\* `for _ in 0..len { ctx.seq.remove(0); }` once the instruction gave outcome r
edit_consumed(r, len) == [r EXCEPT !.c = consume(r.c, len)]

\* the match on the parse result p in edit
edit_parsed(c, p) ==
    CASE p.r = "Error" -> Cont(consume(c, p.len), FALSE)
      [] p.r = "Incomplete" -> Cont(c, FALSE)
      [] p.r = "Ok" ->
             edit_consumed(apply_instr(c, interpret_token(p.token, c.mode, c.vi_mode)), p.len)

\* edit: one cycle on the pending sequence
edit(c) == edit_parsed(c, parse(c.seq, c.enc))


----------------------------------------------------------------------------
(* run.rs and term.rs: the input source and the read/edit loop              *)

\* Term::read_seq reads at most this many bytes at once
READ_SEQ_LEN == 3

\* read_seq that hands an empty read on instead of reporting the end of input
read_seq_empty(input, n) == Ok(SubSeq(input, 1, Min(n, Len(input))))

\* RunIO::read_seq asked for n bytes: EndOfFile when the source has no byte
\* left (TestIO, and TermIO on an empty read), else the next bytes
read_seq(input, n) ==
    IF Len(input) = 0 THEN Err("EndOfFile") ELSE Ok(SubSeq(input, 1, Min(n, Len(input))))

RECURSIVE fill(_, _)
\* EditCtx::fill for every byte read
fill(c, bytes) ==
    IF bytes = <<>> THEN c ELSE fill([c EXCEPT !.seq = Append(c.seq, Head(bytes))], Tail(bytes))

\* the state at the start of run_edit: a new context, the bytes the source
\* will deliver and the largest chunk one read returns
RunInit(history, enc, mode, input, chunk) ==
    /\ ctx = NewEditCtx(history, enc, mode)
    /\ io = [input |-> input, chunk |-> chunk]
    /\ stream = input
    /\ pc = "edit"
    /\ res = [kind |-> "None"]

\* run_edit: the match on the EditResult r
EditResult(r) ==
    /\ ctx' = r.c
    /\ IF r.c.buf.fault # "none"
       THEN pc' = "done" /\ res' = [kind |-> "Fault", val |-> r.c.buf.fault]
       ELSE IF r.halt.some
       THEN pc' = "done" /\ res' = r.halt.v
       ELSE pc' = "prompt" /\ res' = res

\* run_edit: `match edit(&mut ctx)`; a panic or an endless loop inside the
\* cycle ends the run as a fault
Edit ==
    /\ pc = "edit"
    /\ EditResult(edit(ctx))
    /\ UNCHANGED <<io, stream>>

\* run_edit: io.prompt(line) returned bytes, which are appended to ctx.seq
PromptRead ==
    /\ pc = "prompt"
    /\ \E n \in 1..io.chunk :
          LET r == read_seq(io.input, n)
          IN  /\ r.kind = "Ok"
              /\ ctx' = fill(ctx, r.val)
              /\ io' = [io EXCEPT !.input = SubSeq(io.input, Len(r.val) + 1, Len(io.input))]
    /\ pc' = "edit"
    /\ UNCHANGED <<res, stream>>

\* run_edit: io.prompt(line) failed, try! returns the error
PromptEof ==
    /\ pc = "prompt"
    /\ LET r == read_seq(io.input, io.chunk)
       IN  /\ r.kind = "Err"
           /\ res' = r
    /\ pc' = "done"
    /\ UNCHANGED <<ctx, io, stream>>

Next == Edit \/ PromptRead \/ PromptEof


----------------------------------------------------------------------------
(* Specifications                                                           *)

\* the longest input of the general specification
MaxInput == 4

\* bytes of the general specification: Ctrl-D, Enter, Esc, '[', 'D', 'a', 'd'
\* and a byte that is not ASCII
GeneralBytes == {4, 13, 27, 91, 68, 97, 100, 200}

\* any input of the general bytes, either editing mode, one byte or up to
\* READ_SEQ_LEN bytes per read
Init ==
    \E s \in SeqsUpTo(GeneralBytes, MaxInput), m \in {"Emacs", "Vi"}, k \in {1, READ_SEQ_LEN} :
        RunInit(<<>>, "ASCII", m, s, k)

Spec == Init /\ [][Next]_vars

\* the longest line typed in the typing specification
MaxTyped == 4

\* bytes that are neither a control token (0-27, 127) nor above 127
TypedBytes == {28, 32, 65, 126}

\* Emacs mode, typed bytes and Enter, one byte per read
InitTyping ==
    \E s \in SeqsUpTo(TypedBytes \cup {13}, MaxTyped + 1) : RunInit(<<>>, "ASCII", "Emacs", s, 1)

SpecTyping == InitTyping /\ [][Next]_vars

----------------------------------------------------------------------------
(* Claims                                                                   *)

RECURSIVE UpTo(_, _)
\* the longest prefix of s without the byte x
UpTo(s, x) == IF s = <<>> \/ Head(s) = x THEN <<>> ELSE <<Head(s)>> \o UpTo(Tail(s), x)

\* x occurs in s
Occurs(s, x) == \E k \in 1..Len(s) : s[k] = x

\* C1: in Emacs mode, typed bytes (none of 0-27, 127) delivered one per read
\* and followed by Enter make run_edit return Ok of exactly those characters
\* in the order typed; Enter alone returns Ok("")
C1_TypedLineReturned ==
    (pc = "done" /\ Occurs(stream, 13)) => res = Ok(UpTo(stream, 13))

\* a line of MaxTyped characters, not all equal, was returned
C1_Witness ==
    /\ pc = "done" /\ res.kind = "Ok" /\ Len(res.val) = MaxTyped
    /\ res.val[1] # res.val[2]

\* C2: when the input source reports the end of input at a prompt, run_edit
\* returns Err(EndOfFile), whatever the buffer, the mode and the pending bytes
C2_EofAtPrompt ==
    [][(pc = "prompt" /\ io.input = <<>>) => (pc' = "done" /\ res' = Err("EndOfFile"))]_vars

\* the end of input met a non-empty buffer, pending bytes and Vi Normal mode
C2_Witness ==
    /\ pc = "done" /\ res = Err("EndOfFile")
    /\ ctx.buf.front_buf # <<>> /\ ctx.seq # <<>>
    /\ ctx.mode = "Vi" /\ ctx.vi_mode.m = "Normal"

----------------------------------------------------------------------------
(* Ctrl-C in every mode state                                               *)

\* the longest text typed before the mode is entered
MaxCancelText == 2

\* the keys that start a character search: f, F, t, T
CharSearchKeys == {102, 70, 116, 84}

\* nothing or one digit: 2
OptCount == {<<>>, <<50>>}

\* the key sequences that lead from Insert to each Vi sub-mode: nothing
\* (Insert), Esc (Normal), then r (Replace), d or c (Delete, Change), a
\* character-search key after none of them or after d or c, with counts between
ModePrefixes ==
    {<<>>} \cup
    {<<27>> \o n \o op \o k \o s :
        n \in OptCount, op \in {<<>>, <<100>>, <<99>>}, k \in OptCount,
        s \in {<<>>} \cup {<<x>> : x \in CharSearchKeys \cup {114}}}

\* text, the keys that enter a mode, Ctrl-C, and possibly one more byte;
\* either editing mode, one byte or up to READ_SEQ_LEN bytes per read
InitCancel ==
    \E t \in SeqsUpTo({97, 32}, MaxCancelText), p \in ModePrefixes,
       e \in SeqsUpTo({97, 13}, 1), m \in {"Emacs", "Vi"}, k \in {1, READ_SEQ_LEN} :
        RunInit(<<>>, "ASCII", m, t \o p \o <<3>> \o e, k)

SpecCancel == InitCancel /\ [][Next]_vars

\* the next token of the pending bytes is Ctrl-C
CtrlCNext == parse(ctx.seq, ctx.enc) = ParseSuccess(Tok("CtrlC"), 1)

\* the bytes of the stream that have been read so far
Consumed == SubSeq(stream, 1, Len(stream) - Len(io.input))

\* C3 as stated: a Ctrl-C token halts the read with the Cancel error in Emacs
\* mode and in every Vi sub-mode
C3_CancelEverywhere ==
    [][(pc = "edit" /\ CtrlCNext) => (pc' = "done" /\ res' = Err("Cancel"))]_vars

\* C3: a Ctrl-C token halts the read with the Cancel error in Emacs mode and in
\* the Vi sub-modes Insert and Normal; in the sub-modes Replace, MoveChar,
\* DeleteMoveChar, ChangeMoveChar, Delete and Change it does not halt: the
\* sub-mode becomes Normal, the count 0, the buffer is unchanged and editing
\* continues
C3_CancelByMode ==
    [][(pc = "edit" /\ CtrlCNext) =>
          IF ctx.mode = "Emacs" \/ ctx.vi_mode.m \in {"Insert", "Normal"}
          THEN pc' = "done" /\ res' = Err("Cancel")
          ELSE /\ pc' = "prompt" /\ res' = res
               /\ ctx'.vi_mode = ViMode("Normal") /\ ctx'.vi_count = u32_of(0)
               /\ ctx'.buf = ctx.buf]_vars

\* Ctrl-C arrived in ChangeMoveChar with a pending count and a non-empty line,
\* and editing went on in Normal
C3_Witness ==
    /\ pc = "prompt" /\ ctx.mode = "Vi" /\ io.chunk = 1
    /\ Consumed = <<97, 32, 27, 99, 50, 116, 3>>
    /\ ctx.vi_mode = ViMode("Normal") /\ ctx.buf.front_buf = <<97, 32>>

----------------------------------------------------------------------------
(* The repeat count                                                         *)

\* the longest free run of digits
MaxDigits == 2

\* the length of the long run of nines (no_integer_overflow)
MaxNines == 50

\* digits on both sides of the last digit of u32::MAX = 4294967295
CountDigits == {48, 53, 54, 57}

\* nothing, or the digits 429496729 of u32::MAX without the last one
CountStems == {<<>>, <<52, 50, 57, 52, 57, 54, 55, 50, 57>>}

\* the lengths of the runs of nines
NineRuns == {0, 1, MaxNines}

\* Vi mode, one byte per read: a line or none, Esc, no operator or d or c,
\* digits (a stem, free digits, a run of nines) and possibly Enter
InitCount ==
    \E t \in {<<>>, <<97, 98>>}, op \in {<<>>, <<100>>, <<99>>}, st \in CountStems,
       ds \in SeqsUpTo(CountDigits, MaxDigits), j \in NineRuns, e \in SeqsUpTo({13}, 1) :
        RunInit(<<>>, "ASCII", "Vi", t \o <<27>> \o op \o st \o ds \o Repl(57, j) \o e, 1)

SpecCount == InitCount /\ [][Next]_vars

\* the sub-modes in which digits build the count
CountModes == {"Normal", "Delete", "Change"}

\* the next token is a one-character text, a digit
DigitNext ==
    /\ Len(ctx.seq) = 1 /\ ctx.seq[1] \in 48..57
    /\ parse(ctx.seq, ctx.enc) = ParseSuccess(Text(ctx.seq), 1)

\* the next token is Enter and the byte read before it was a digit
EnterAfterDigit ==
    /\ parse(ctx.seq, ctx.enc) = ParseSuccess(Tok("Enter"), 1)
    /\ Len(Consumed) >= 2 /\ Consumed[Len(Consumed) - 1] \in 48..57

\* count * 10 + d does not exceed u32::MAX
Fits(count, d) == u32_mul10_add(count, d).hi < LIMB

\* a digit is accumulated exactly when the new count fits in a u32, and is
\* ignored otherwise
DigitAccumulates ==
    (pc = "edit" /\ ctx.vi_mode.m \in CountModes /\ DigitNext) =>
        /\ ctx'.vi_count = IF Fits(ctx.vi_count, ctx.seq[1] - 48)
                           THEN u32_mul10_add(ctx.vi_count, ctx.seq[1] - 48)
                           ELSE ctx.vi_count
        /\ pc' = "prompt"

\* the count is a u32
CountInRange == ctx.vi_count.hi \in 0..(LIMB - 1) /\ ctx.vi_count.lo \in 0..(LIMB - 1)

\* C4 as stated: the count never exceeds u32::MAX and never wraps, a digit is
\* accumulated only when the new count fits and is ignored otherwise, and an
\* Enter that follows the digits completes the read, in Normal, Delete and
\* Change sub-mode alike
C4_EnterCompletesInEveryMode ==
    /\ [](CountInRange)
    /\ [][DigitAccumulates]_vars
    /\ [][(pc = "edit" /\ ctx.vi_mode.m \in CountModes /\ EnterAfterDigit) =>
             (pc' = "done" /\ res' = Ok(ctx.buf.front_buf))]_vars

\* C4: the count never exceeds u32::MAX and never wraps, a digit is accumulated
\* as count*10+d only when that fits and is ignored otherwise; after digits in
\* Normal sub-mode Enter completes the read with Ok(line) (50 nines after Esc,
\* then Enter: Ok("")), after digits in Delete or Change sub-mode Enter
\* abandons the pending command: sub-mode Normal, count 0, the read goes on
C4_CountNeverWraps ==
    /\ [](CountInRange)
    /\ [][DigitAccumulates]_vars
    /\ [][(pc = "edit" /\ ctx.vi_mode.m \in CountModes /\ EnterAfterDigit) =>
             IF ctx.vi_mode.m = "Normal"
             THEN pc' = "done" /\ res' = Ok(ctx.buf.front_buf)
             ELSE /\ pc' = "prompt" /\ res' = res /\ ctx'.buf = ctx.buf
                  /\ ctx'.vi_mode = ViMode("Normal") /\ ctx'.vi_count = u32_of(0)]_vars
    /\ []((pc = "done" /\ stream = <<27>> \o Repl(57, MaxNines) \o <<13>>) => res = Ok(<<>>))

\* the count reached u32::MAX exactly, the long run of nines was ignored and
\* Enter returned the line
C4_Witness ==
    /\ pc = "done" /\ res = Ok(<<97, 98>>)
    /\ ctx.vi_count = U32_MAX
    /\ Len(stream) > MaxNines + 10

----------------------------------------------------------------------------
(* Operators with a word-forward motion: dw, dW, cw, cW                     *)

\* the longest line of the word specifications
MaxWordText == 5

\* a keyword character, whitespace and a non-keyword character: 'a', ' ', '.'
WordChars == {97, 32, 46}

\* Vi mode, one byte per read: a line is typed, Esc, h as often as takes the
\* cursor to any character, no count or 2, d or c, w or W
InitWordOp ==
    \E t \in SeqsUpTo(WordChars, MaxWordText), n \in OptCount,
       op \in {100, 99}, mo \in {119, 87} :
        \E k \in 0..Len(t) :
            RunInit(<<>>, "ASCII", "Vi", t \o <<27>> \o Repl(104, k) \o n \o <<op, mo>>, 1)

SpecWordOp == InitWordOp /\ [][Next]_vars

\* the next token is the text of the single character ch
TextNext(ch) == parse(ctx.seq, ctx.enc) = ParseSuccess(Text(<<ch>>), 1)

\* the class of a character: whitespace, keyword, other
CharClass(c) == IF is_whitespace(c) THEN "ws" ELSE IF c = 95 \/ is_alphanumeric(c) THEN "kw" ELSE "other"

\* the indices (from 1) of s at which a word begins after another character
WordStarts(s) ==
    {j \in 2..Len(s) : ~is_whitespace(s[j]) /\ CharClass(s[j - 1]) # CharClass(s[j])}

\* the least element of a non-empty set of numbers
Least(S) == CHOOSE x \in S : \A y \in S : x <= y

\* the index (from 1) of the first character of the next word after the
\* character at index i, or Len(s) + 1 when there is none
NextWordStart(s, i) ==
    IF {j \in WordStarts(s) : j > i} = {} THEN Len(s) + 1
    ELSE Least({j \in WordStarts(s) : j > i})

\* s without its characters from index i up to, not including, index j
Without(s, i, j) == SubSeq(s, 1, i - 1) \o SubSeq(s, j, Len(s))

\* the index (from 1) of the character under the cursor
CursorIndex == ctx.buf.pos.byte_pos + 1

\* C5: in Vi with no pending count, dw deletes exactly the text from the cursor
\* up to, not including, the first character of the next word (to the end of
\* the line when there is no next word), keeps the text before the cursor and
\* ends in Normal sub-mode
C5_DeleteWord ==
    [][(pc = "edit" /\ ctx.mode = "Vi" /\ ctx.vi_mode.m = "Delete"
        /\ ctx.vi_count = u32_of(0) /\ TextNext(119)) =>
          /\ ctx'.buf.front_buf =
                 Without(ctx.buf.front_buf, CursorIndex,
                         NextWordStart(ctx.buf.front_buf, CursorIndex))
          /\ ctx'.vi_mode = ViMode("Normal")
          /\ pc' = "prompt"]_vars

\* dw at the start of "aa .a" left ".a": the word and the blank were deleted,
\* the next word, which begins with a non-keyword character, was kept
C5_Witness ==
    /\ pc = "prompt" /\ Consumed = <<97, 97, 32, 46, 97, 27, 104, 104, 104, 104, 100, 119>>
    /\ ctx.buf.front_buf = <<46, 97>> /\ ctx.vi_mode = ViMode("Normal")

----------------------------------------------------------------------------
(* Whole-line operators: dd, cc                                             *)

\* the longest line of the line-operator specification
MaxLineText == 3

\* the longest text typed after the operator
MaxLineTyped == 2

\* Vi mode, one byte per read: a line is typed, Esc, h to any character, a
\* count or none, d or c, a count or none, the same letter again, then text
\* and possibly Enter
InitLineOp ==
    \E t \in SeqsUpTo({97, 32}, MaxLineText), n1 \in OptCount, n2 \in OptCount,
       op \in {100, 99}, x \in SeqsUpTo({120, 32}, MaxLineTyped), e \in SeqsUpTo({13}, 1) :
        \E k \in 0..Len(t) :
            RunInit(<<>>, "ASCII", "Vi",
                    t \o <<27>> \o Repl(104, k) \o n1 \o <<op>> \o n2 \o <<op>> \o x \o e, 1)

SpecLineOp == InitLineOp /\ [][Next]_vars

RECURSIVE After(_, _)
\* what follows the first x in s
After(s, x) == IF s = <<>> THEN <<>> ELSE IF Head(s) = x THEN Tail(s) ELSE After(Tail(s), x)

\* the bytes of the stream after Esc and two letters c
AfterChangeLine == After(After(After(stream, 27), 99), 99)

\* C6: in Vi mode dd and cc empty the whole line wherever the cursor is and
\* whatever count is pending, reset the count to 0 and the cursor to the start
\* and leave the sub-mode Normal (dd) or Insert (cc); the text typed after cc
\* and ended by Enter is the whole returned line
C6_LineOperators ==
    /\ [][(pc = "edit" /\ ctx.mode = "Vi"
           /\ \/ ctx.vi_mode.m = "Delete" /\ TextNext(100)
              \/ ctx.vi_mode.m = "Change" /\ TextNext(99)) =>
             /\ ctx'.buf.front_buf = <<>> /\ ctx'.buf.pos = Position(0, 0)
             /\ ctx'.vi_count = u32_of(0)
             /\ ctx'.vi_mode = ViMode(IF ctx.vi_mode.m = "Delete" THEN "Normal" ELSE "Insert")
             /\ pc' = "prompt"]_vars
    /\ []((pc = "done" /\ Occurs(After(stream, 27), 99) /\ Occurs(stream, 13)) =>
             res = Ok(UpTo(AfterChangeLine, 13)))

\* 2c2c in the middle of "a a", then "xx" and Enter, returned "xx"
C6_Witness ==
    /\ pc = "done" /\ res = Ok(<<120, 120>>)
    /\ stream = <<97, 32, 97, 27, 104, 50, 99, 50, 99, 120, 120, 13>>

\* the indices (from 1) of s at which a non-blank run begins after a blank
BigWordStarts(s) == {j \in 2..Len(s) : ~is_whitespace(s[j]) /\ is_whitespace(s[j - 1])}

\* the least element of S above i, or n when there is none
NextIn(S, i, n) == IF {j \in S : j > i} = {} THEN n ELSE Least({j \in S : j > i})

RECURSIVE NthIn(_, _, _, _)
\* n times NextIn from i
NthIn(S, i, n, k) == IF k = 0 THEN i ELSE NthIn(S, NextIn(S, i, n), n, k - 1)

\* the index (from 1) at which the motion w (big: W) with the pending count
\* ends from index i: Len(s) + 1 is the end of the line
MotionEnd(s, i, big, count) ==
    NthIn(IF big THEN BigWordStarts(s) ELSE WordStarts(s), i, Len(s) + 1,
          IF count = u32_of(0) THEN 1 ELSE loop_count(count))

\* the index of the last character of the word that the character at i is in
WordEnd(s, i) ==
    CHOOSE j \in i..Len(s) :
        /\ \A k \in i..j : CharClass(s[k]) = CharClass(s[i])
        /\ j = Len(s) \/ CharClass(s[j + 1]) # CharClass(s[i])

\* the index of the last non-blank character of s before index q
LastNonBlank(s, q) ==
    CHOOSE j \in 1..(q - 1) :
        ~is_whitespace(s[j]) /\ \A k \in (j + 1)..(q - 1) : is_whitespace(s[k])

\* the cursor is on a character that is not whitespace
OnNonBlank ==
    CursorIndex <= Len(ctx.buf.front_buf) /\ ~is_whitespace(ctx.buf.front_buf[CursorIndex])

\* the cursor is on a whitespace character
OnBlank ==
    CursorIndex <= Len(ctx.buf.front_buf) /\ is_whitespace(ctx.buf.front_buf[CursorIndex])

\* C7: in Vi with no pending count, cw with the cursor on a non-whitespace
\* character deletes only from the cursor to the end of the current word (the
\* whitespace after it and the following words are kept) and the sub-mode
\* becomes Insert; with the cursor on whitespace cw deletes up to the start of
\* the next word
C7_ChangeWordKeepsRest ==
    [][(pc = "edit" /\ ctx.mode = "Vi" /\ ctx.vi_mode.m = "Change"
        /\ ctx.vi_count = u32_of(0) /\ TextNext(119)) =>
          /\ OnNonBlank =>
                ctx'.buf.front_buf =
                    Without(ctx.buf.front_buf, CursorIndex,
                            WordEnd(ctx.buf.front_buf, CursorIndex) + 1)
          /\ OnBlank =>
                ctx'.buf.front_buf =
                    Without(ctx.buf.front_buf, CursorIndex,
                            NextWordStart(ctx.buf.front_buf, CursorIndex))
          /\ ctx'.vi_mode = ViMode("Insert")]_vars

\* the next token is the text w or W
WordMotionNext == TextNext(119) \/ TextNext(87)

\* where the pending word-forward motion ends from the cursor
ChangeMotionEnd ==
    MotionEnd(ctx.buf.front_buf, CursorIndex, TextNext(87), ctx.vi_count)

\* the motion ends on the first character of a word whose second character
\* is of the same kind (for W: is not whitespace)
EndsOnLongWord(s, q) ==
    /\ q < Len(s)
    /\ IF TextNext(87) THEN ~is_whitespace(s[q + 1]) ELSE CharClass(s[q + 1]) = CharClass(s[q])

----------------------------------------------------------------------------
(* Ctrl-D                                                                   *)

\* the next token of the pending bytes is Ctrl-D
CtrlDNext == parse(ctx.seq, ctx.enc) = ParseSuccess(Tok("CtrlD"), 1)

\* C9: in Vi Insert and Normal sub-mode Ctrl-D halts the read, with Ok of the
\* whole line wherever the cursor is when the buffer is not empty, with
\* Err(EndOfFile) when it is empty
C9_ViCtrlD ==
    [][(pc = "edit" /\ ctx.mode = "Vi" /\ ctx.vi_mode.m \in {"Insert", "Normal"} /\ CtrlDNext) =>
          /\ pc' = "done"
          /\ res' = IF ctx.buf.front_buf = <<>> THEN Err("EndOfFile")
                    ELSE Ok(ctx.buf.front_buf)]_vars

\* Ctrl-D in Normal with the cursor on the last of two characters returned both
C9_Witness ==
    /\ pc = "done" /\ stream = <<97, 100, 27, 4>> /\ io.chunk = 1
    /\ ctx.mode = "Vi" /\ res = Ok(<<97, 100>>)

\* C10: in Emacs mode Ctrl-D halts with Err(EndOfFile) only when the buffer is
\* empty; when it is not empty, wherever the cursor is, the character right of
\* the cursor is deleted if there is one and editing continues
C10_EmacsCtrlD ==
    [][(pc = "edit" /\ ctx.mode = "Emacs" /\ CtrlDNext) =>
          IF ctx.buf.front_buf = <<>>
          THEN pc' = "done" /\ res' = Err("EndOfFile")
          ELSE /\ pc' = "prompt" /\ res' = res
               /\ ctx'.buf.front_buf =
                      Without(ctx.buf.front_buf, CursorIndex, CursorIndex + 1)]_vars

----------------------------------------------------------------------------
(* History browsing                                                         *)

\* the most entries of a history
MaxHistory == 2

\* the most history keys pressed
MaxHistKeys == 5

\* the entries a history is made of
HistEntries == {<<120>>, <<121, 122>>}

\* the keys of HistoryPrev and HistoryNext: Ctrl-P and Ctrl-N in Emacs mode,
\* k and j in Vi Normal sub-mode
PrevKey(m) == IF m = "Emacs" THEN 16 ELSE 107

NextKey(m) == IF m = "Emacs" THEN 14 ELSE 106

\* a history, a live line of a and b, Esc in Vi mode, then history keys in any
\* order, one byte per read
InitHistory ==
    \E h \in SeqsUpTo(HistEntries, MaxHistory), l \in SeqsUpTo({97, 98}, 2),
       m \in {"Emacs", "Vi"} :
        \E ks \in SeqsUpTo({PrevKey(m), NextKey(m)}, MaxHistKeys) :
            RunInit(h, "ASCII", m, l \o (IF m = "Vi" THEN <<27>> ELSE <<>>) \o ks, 1)

SpecHistory == InitHistory /\ [][Next]_vars

\* a byte of the live line
IsLineByte(x) == x \in {97, 98}

\* a history key
IsHistKey(x) == x \in {16, 14, 107, 106}

\* the live line typed so far; history keys come after the whole line
LiveLine == SelectSeq(Consumed, IsLineByte)

\* the history keys read so far
KeysRead == SelectSeq(Consumed, IsHistKey)

RECURSIVE Walk(_, _, _)
\* the number of entries browsed back (0: no selection) after the keys ks, from
\* sel, in a history of n entries: Prev steps back and stops at the oldest
\* entry, Next steps forward and stops at no selection
Walk(ks, n, sel) ==
    IF ks = <<>> THEN sel
    ELSE Walk(Tail(ks), n,
              IF Head(ks) \in {16, 107} THEN (IF sel < n THEN sel + 1 ELSE sel)
              ELSE (IF sel > 0 THEN sel - 1 ELSE 0))

\* the selection after the keys read so far
Browsed == Walk(KeysRead, Len(ctx.history), 0)

\* C11: with a history of n entries, a live line L and no selection, k
\* HistoryPrev steps show entry min(k, n) - 1 counted from the most recent, and
\* HistoryNext steps walking back past the most recent entry return to no
\* selection with the front buffer restored to exactly L; the history cursor
\* is always none or less than n, and the history list is never modified
C11_HistoryRoundTrip ==
    /\ []((pc # "edit" /\ ctx.seq = <<>>) =>
             /\ ctx.history_cursor = IF Browsed = 0 THEN None ELSE Some(Browsed - 1)
             /\ ctx.buf.front_buf = IF Browsed = 0 THEN LiveLine ELSE ctx.history[Browsed])
    /\ [](ctx.history_cursor.some => ctx.history_cursor.v < Len(ctx.history))
    /\ [][ctx'.history = ctx.history]_vars

\* three steps back in a history of two entries stopped at the oldest, two
\* steps forward restored the live line "ab"
C11_Witness ==
    /\ pc = "prompt" /\ Consumed = <<97, 98, 16, 16, 16, 14, 14>>
    /\ Len(ctx.history) = 2 /\ ctx.history[1] # ctx.history[2]
    /\ ctx.history_cursor = None /\ ctx.buf.front_buf = <<97, 98>>
    /\ ctx.buf.back_buf = ctx.history[1]

----------------------------------------------------------------------------
(* Chunking of the input                                                    *)

RECURSIVE run_bytewise(_, _)
RECURSIVE run_bytewise_result(_, _)
\* run_edit on a source that delivers one byte per read: the result of the
\* loop from the context c with the bytes input still to come
run_bytewise(c, input) == run_bytewise_result(edit(c), input)

\* run_edit: the match on the EditResult r, then io.prompt and fill
run_bytewise_result(r, input) ==
    IF r.c.buf.fault # "none" THEN [kind |-> "Fault", val |-> r.c.buf.fault]
    ELSE IF r.halt.some THEN r.halt.v
    ELSE IF read_seq(input, 1).kind = "Err" THEN read_seq(input, 1)
    ELSE run_bytewise(fill(r.c, read_seq(input, 1).val), Tail(input))

\* C12: for a fixed byte stream the final result of the line read is the same
\* however the reads split the stream into chunks of 1 to READ_SEQ_LEN bytes:
\* every run ends with the result of the run that reads byte by byte
C12_ChunkingIndependent ==
    pc = "done" => res = run_bytewise(NewEditCtx(ctx.history, ctx.enc, ctx.mode), stream)

----------------------------------------------------------------------------
(* Parse errors                                                             *)

\* parse reports an error on the pending sequence
ParseFails == pc = "edit" /\ ctx.seq # <<>> /\ parse(ctx.seq, ctx.enc).r = "Error"

\* C13: whenever parse reports an error on a non-empty pending sequence, the
\* edit cycle removes at least one leading byte of it
C13_ErrorDiscardsBytes ==
    [][ParseFails => Len(ctx'.seq) < Len(ctx.seq)]_vars

----------------------------------------------------------------------------
(* Multi-byte input                                                         *)

\* the longest input of the UTF-8 specification
MaxUtf8Input == 4

\* bytes of the UTF-8 specification: Enter, Esc, 'a', 'r', 'd', the two bytes
\* of U+00E9 and the lead byte of a three-byte sequence
Utf8Bytes == {13, 27, 97, 114, 100, 195, 169, 227}

\* any input of these bytes decoded as UTF-8, either editing mode, one byte or
\* up to READ_SEQ_LEN bytes per read
InitUtf8 ==
    \E input \in SeqsUpTo(Utf8Bytes, MaxUtf8Input), m \in {"Emacs", "Vi"},
       n \in {1, READ_SEQ_LEN} :
        RunInit(<<>>, "UTF_8", m, input, n)

SpecUtf8 == InitUtf8 /\ [][Next]_vars

\* the pending bytes are a proper prefix of a valid multi-byte character
PendingPrefix ==
    /\ pc = "edit" /\ ctx.seq # <<>>
    /\ utf8_len(Head(ctx.seq)) > Len(ctx.seq)
    /\ utf8_cont_ok(ctx.seq, 1, utf8_len(Head(ctx.seq)))

\* C14: when the pending bytes are a proper prefix of a valid multi-byte
\* character, parse returns Incomplete, and the edit cycle consumes no byte and
\* leaves buffer, cursor, mode and count unchanged
C14_PrefixIsIncomplete ==
    /\ [](PendingPrefix => parse(ctx.seq, ctx.enc) = Incomplete)
    /\ [][PendingPrefix => ctx' = ctx]_vars

----------------------------------------------------------------------------
(* Control bytes and text                                                   *)

\* the bytes with a token of their own in match_head
IsControlByte(c) == c \in 0..27 \/ c = 127

\* no character of s is a control byte
NoControl(s) == \A i \in 1..Len(s) : ~IsControlByte(s[i])

\* C15: a Text token produced by parse never contains a control byte, so
\* neither the buffer nor the line returned by a successful read contains one
C15_TextIsPrintable ==
    /\ (parse(ctx.seq, ctx.enc).r = "Ok" /\ parse(ctx.seq, ctx.enc).token.t = "Text")
           => NoControl(parse(ctx.seq, ctx.enc).token.text)
    /\ NoControl(ctx.buf.front_buf)
    /\ (res.kind = "Ok" => NoControl(res.val))

----------------------------------------------------------------------------
(* The cursor in Normal sub-mode                                            *)

\* an edit cycle has ended in Vi mode with sub-mode Normal and a line that is
\* not empty
NormalAtRest ==
    /\ pc = "prompt" /\ ctx.mode = "Vi" /\ ctx.vi_mode = ViMode("Normal")
    /\ ctx.buf.front_buf # <<>>

\* C16: in Vi mode, at the end of every edit cycle in which the sub-mode is
\* Normal and the line is not empty, the cursor rests on a character
C16_NormalCursorOnChar ==
    NormalAtRest => ctx.buf.pos.byte_pos < str_len(ctx.buf.front_buf)

----------------------------------------------------------------------------
(* buffer.rs: sequences of Buffer operations                                *)

\* the state of a sequence of calls on a Buffer b, at most n calls long:
\* stream logs the calls made, res holds the value the last call returned
BufInit(b, n) ==
    /\ ctx = [NewEditCtx(<<>>, "UTF_8", "Emacs") EXCEPT !.buf = b]
    /\ io = [input |-> <<>>, chunk |-> n]
    /\ stream = <<>>
    /\ pc = "buf"
    /\ res = [kind |-> "None"]

\* another call may be made: no call panicked or hung
BufReady == pc = "buf" /\ ctx.buf.fault = "none" /\ Len(stream) < io.chunk

\* the call logged as entry led to r
BufApply(r, entry) ==
    /\ ctx' = [ctx EXCEPT !.buf = r.b]
    /\ res' = [kind |-> "Ret", val |-> r.ok]
    /\ stream' = Append(stream, entry)
    /\ UNCHANGED <<io, pc>>

\* a call of the operation op without arguments
BufStep(op) == BufReady /\ BufApply(buf_step(ctx.buf, op), <<op, 0>>)

\* 'a', ' ', Cyrillic U+0439 (two bytes), CJK U+4E16 (three bytes, double
\* width) and the combining acute accent U+0301 (two bytes, zero width)
BufChars == {97, 32, 1081, 19990, 769}

BufStepOps ==
    {"delete_char_left_of_cursor", "delete_char_right_of_cursor", "move_left", "move_right",
     "move_end", "move_start", "move_to_end_of_word", "move_to_end_of_word_ws", "move_word",
     "move_word_ws", "move_word_back", "move_word_ws_back"}

\* Buffer::insert_char_at_cursor
BufInsert ==
    /\ BufReady
    /\ \E c \in BufChars :
          BufApply(Ret(insert_char_at_cursor(ctx.buf, c), FALSE), <<"insert_char_at_cursor", c>>)

\* Buffer::replace_chars_at_cursor with one character
BufReplaceChars ==
    /\ BufReady
    /\ \E c \in BufChars :
          BufApply(Ret(replace_chars_at_cursor(ctx.buf, <<c>>), FALSE),
                   <<"replace_chars_at_cursor", c>>)

\* the deletions and motions without arguments
BufEdit == \E op \in BufStepOps : BufStep(op)

\* Buffer::move_to_char_right and move_to_char_left, once
BufCharMotion ==
    /\ BufReady
    /\ \E c \in BufChars :
          \/ BufApply(move_to_char_right(ctx.buf, c, 1), <<"move_to_char_right", c>>)
          \/ BufApply(move_to_char_left(ctx.buf, c, 1), <<"move_to_char_left", c>>)

\* Buffer::swap
BufSwap == BufReady /\ BufApply(Ret(swap(ctx.buf), FALSE), <<"swap", 0>>)

\* Buffer::replace
BufReplace ==
    /\ BufReady
    /\ \E c \in BufChars : BufApply(Ret(replace(ctx.buf, <<c, 97>>), FALSE), <<"replace", c>>)

\* Buffer::drain
BufDrain == BufReady /\ BufApply(Ret(drain(ctx.buf), FALSE), <<"drain", 0>>)

BufNext ==
    BufInsert \/ BufReplaceChars \/ BufEdit \/ BufCharMotion \/ BufSwap \/ BufReplace \/ BufDrain

\* the most calls made on a buffer
MaxBufOps == 3

\* any sequence of calls on a new buffer
InitBuffer == BufInit(NewBuffer, MaxBufOps)

SpecBuffer == InitBuffer /\ [][BufNext]_vars

RECURSIVE GraphemeOffsets(_, _)
\* the byte offsets of the grapheme boundaries of the clusters g, the first at off
GraphemeOffsets(g, off) ==
    IF g = <<>> THEN {off} ELSE {off} \cup GraphemeOffsets(Tail(g), off + str_len(Head(g)))

\* the text before the cursor of b, when the cursor is on a character boundary
BeforeCursor(b) == SubSeq(b.front_buf, 1, char_index(b.front_buf, b.pos.byte_pos))

\* C17: after any sequence of buffer operations the cursor byte offset is
\* between 0 and the text length, on a grapheme boundary, and the cursor column
\* is the display width of the text before the cursor
C17_PositionInvariant ==
    ctx.buf.fault = "none" =>
        /\ ctx.buf.pos.byte_pos \in 0..str_len(ctx.buf.front_buf)
        /\ ctx.buf.pos.byte_pos \in GraphemeOffsets(graphemes(ctx.buf.front_buf), 0)
        /\ ctx.buf.pos.char_pos = str_width(BeforeCursor(ctx.buf))

----------------------------------------------------------------------------
(* buffer.rs: the same calls on characters of another width                 *)

\* the most calls of the width specification
MaxWidthOps == 4

\* Buffer::insert_char_at_cursor of an ASCII letter
BufInsertAscii ==
    /\ BufReady
    /\ \E c \in {97, 98} :
          BufApply(Ret(insert_char_at_cursor(ctx.buf, c), FALSE), <<"insert_char_at_cursor", c>>)

BufMoveLeft == BufStep("move_left")

BufMoveRight == BufStep("move_right")

BufMoveStart == BufStep("move_start")

BufMoveEnd == BufStep("move_end")

BufDeleteLeft == BufStep("delete_char_left_of_cursor")

\* the calls of the tests move_and_insert_ascii, _cyrillic and _cjk
WidthNext ==
    BufInsertAscii \/ BufMoveLeft \/ BufMoveRight \/ BufMoveStart \/ BufMoveEnd \/ BufDeleteLeft

InitWidth == BufInit(NewBuffer, MaxWidthOps)

SpecWidth == InitWidth /\ [][WidthNext]_vars

\* the Cyrillic letter (two bytes, width 1) and the CJK ideograph (three bytes,
\* width 2) that stand for the ASCII letter c
Replacement(c, kind) == IF kind = "cyrillic" THEN 975 + c ELSE 19968 + c

\* the text s with every letter replaced
Replaced(s, kind) == [i \in 1..Len(s) |-> Replacement(s[i], kind)]

RECURSIVE buf_calls(_, _, _)
\* the buffer after the logged calls are made on b with every inserted letter
\* replaced
buf_calls(b, calls, kind) ==
    IF calls = <<>> THEN b
    ELSE buf_calls(IF Head(calls)[1] = "insert_char_at_cursor"
                   THEN insert_char_at_cursor(b, Replacement(Head(calls)[2], kind))
                   ELSE buf_step(b, Head(calls)[1]).b,
                   Tail(calls), kind)

\* C18: the same sequence of insert_char_at_cursor, move_left, move_right,
\* move_start, move_end and delete_char_left_of_cursor with every ASCII
\* character replaced by a multi-byte or double-width character yields the
\* correspondingly replaced text
C18_WidthIndependent ==
    \A kind \in {"cyrillic", "cjk"} :
        buf_calls(NewBuffer, stream, kind).front_buf = Replaced(ctx.buf.front_buf, kind)

----------------------------------------------------------------------------
(* buffer.rs: move_right and move_left across a text                        *)

\* the longest text walked across
MaxNavText == 3

\* a text of any characters with the cursor at its start (Buffer::replace, then
\* move_start), and calls enough to cross it in both directions and once more
InitNav ==
    \E s \in SeqsUpTo(BufChars, MaxNavText) :
        BufInit(move_start(replace(NewBuffer, s)), 2 * MaxNavText + 1)

NavNext == BufMoveRight \/ BufMoveLeft

SpecNav == InitNav /\ [][NavNext]_vars

RECURSIVE NavIndex(_, _, _)
\* the grapheme index of a cursor that starts at index k of n graphemes and
\* makes the calls, each moving by one grapheme unless at the boundary
NavIndex(calls, n, k) ==
    IF calls = <<>> THEN k
    ELSE NavIndex(Tail(calls), n,
                  IF Head(calls)[1] = "move_right" THEN (IF k < n THEN k + 1 ELSE k)
                  ELSE (IF k > 0 THEN k - 1 ELSE 0))

RECURSIVE PrefixBytes(_, _)
\* the length in bytes of the first k clusters of g
PrefixBytes(g, k) == IF k = 0 THEN 0 ELSE str_len(Head(g)) + PrefixBytes(Tail(g), k - 1)

\* the grapheme index of the cursor after the calls made, all but the last
\* when last is 1
NavAt(last) ==
    NavIndex(SubSeq(stream, 1, Len(stream) - last), Len(graphemes(ctx.buf.front_buf)), 0)

\* C19: from the start of any text, move_right and move_left step by one
\* grapheme and return false exactly at the end, respectively the start, so n
\* move_right calls followed by n move_left calls return the cursor to its
\* starting position; the text is unchanged
C19_NavigationRoundTrip ==
    /\ [](/\ ctx.buf.fault = "none"
          /\ ctx.buf.pos = Position(PrefixBytes(graphemes(ctx.buf.front_buf), NavAt(0)), NavAt(0))
          /\ (stream # <<>> => res.val = (NavAt(0) # NavAt(1))))
    /\ [][ctx'.buf.front_buf = ctx.buf.front_buf]_vars

\* across "a" with a combining accent and a double-width character: two
\* graphemes, two calls right, two calls left, back at the start
C19_Witness ==
    /\ ctx.buf.front_buf = <<97, 769, 19990>>
    /\ stream = <<<<"move_right", 0>>, <<"move_right", 0>>, <<"move_left", 0>>, <<"move_left", 0>>>>
    /\ ctx.buf.pos = Position(0, 0) /\ res.val = TRUE

----------------------------------------------------------------------------
(* buffer.rs: word motions forward and back                                 *)

\* the longest text of the word symmetry specification
MaxSymText == 5

\* the most forward calls, followed by as many backward calls
MaxSymSteps == 3

\* the numbers of characters before the first character of a
\* whitespace-delimited token of s, and 0 for the start of the line
TokenStarts(s) == {0} \cup {j - 1 : j \in {i \in 1..Len(s) : ~is_whitespace(s[i])
                                                   /\ (i = 1 \/ is_whitespace(s[i - 1]))}}

\* the position of the cursor before character i + 1 of a text s whose
\* characters are a grapheme each
PositionAt(s, i) == Position(str_len(SubSeq(s, 1, i)), i)

\* a text of letters, dots, blanks and double-width characters, the cursor at
\* its start
InitWordNav ==
    \E s \in SeqsUpTo({97, 46, 32, 19990}, MaxSymText) :
        BufInit(move_start(replace(NewBuffer, s)), 1 + 2 * MaxSymSteps)

\* the first call places the cursor on the start of the line or of a token
BufStartAt ==
    /\ BufReady /\ stream = <<>>
    /\ \E p \in TokenStarts(ctx.buf.front_buf) :
          BufApply(move_to_pos(ctx.buf, PositionAt(ctx.buf.front_buf, p)), <<"move_to_pos", p>>)

\* the calls made after the first are all calls of the operations ops
OnlyCalls(ops) == stream # <<>> /\ \A i \in 2..Len(stream) : stream[i][1] \in ops

\* the number of calls of op made
Calls(op) == Cardinality({i \in 1..Len(stream) : stream[i][1] = op})

\* move_word or move_word_ws (op), before any backward call
BufWordForward ==
    \E op \in {"move_word", "move_word_ws"} :
        OnlyCalls({op}) /\ Calls(op) < MaxSymSteps /\ BufStep(op)

\* move_word_back or move_word_ws_back, after the forward calls of its kind
\* and no more often
BufWordBack ==
    \E k \in {"move_word", "move_word_ws"} :
        /\ OnlyCalls({k, k \o "_back"}) /\ Calls(k \o "_back") < Calls(k)
        /\ BufStep(k \o "_back")

WordNavNext == BufStartAt \/ BufWordForward \/ BufWordBack

SpecWordNav == InitWordNav /\ [][WordNavNext]_vars

RECURSIVE StopAfter(_, _, _)
\* the position after n calls of the forward motion op on b
StopAfter(b, op, n) == IF n = 0 THEN b.pos ELSE StopAfter(buf_step(b, op).b, op, n - 1)

\* the buffer as the first call left it
Started == [ctx.buf EXCEPT !.pos = PositionAt(ctx.buf.front_buf, stream[1][2])]

\* the text has a token
HasToken == \E i \in 1..Len(ctx.buf.front_buf) : ~is_whitespace(ctx.buf.front_buf[i])

\* after the forward calls of op and as many backward calls the cursor is
\* where the first call placed it
SymmetricFor(op) ==
    (HasToken /\ OnlyCalls({op, op \o "_back"}) /\ Calls(op) >= 1
       /\ Calls(op \o "_back") = Calls(op))
        => ctx.buf.pos = Started.pos

AllMove(op, n) ==
    \A i \in 1..n : StopAfter(Started, op, i) # StopAfter(Started, op, i - 1)

\* when every forward call moved the cursor, the cursor is after the backward
\* calls on the forward stop that many calls earlier
SymmetricWithin(op) ==
    (OnlyCalls({op, op \o "_back"}) /\ Calls(op) >= 1 /\ AllMove(op, Calls(op)))
        => ctx.buf.pos = StopAfter(Started, op, Calls(op) - Calls(op \o "_back"))

----------------------------------------------------------------------------
(* buffer.rs: DeleteContext                                                 *)

\* the longest text of the delete specification
MaxDcText == 3

\* the most motions between start_delete and delete
MaxDcMotions == 2

\* the motions made through a DeleteContext
DcMotions ==
    {"move_left", "move_right", "move_end", "move_start", "move_to_end_of_word",
     "move_to_end_of_word_ws", "move_word", "move_word_ws", "move_word_back",
     "move_word_ws_back"}

\* a text of letters, blanks and double-width characters, the cursor before
\* any of its characters or at its end
InitDelete ==
    \E s \in SeqsUpTo({97, 32, 19990}, MaxDcText) :
        \E i \in 0..Len(s) :
            BufInit([replace(NewBuffer, s) EXCEPT !.pos = PositionAt(s, i)], MaxDcMotions + 2)

\* Buffer::start_delete: the first call, the log keeps the context
BufStartDelete ==
    /\ BufReady /\ stream = <<>>
    /\ BufApply(Ret(ctx.buf, FALSE), <<"start_delete", start_delete(ctx.buf)>>)

\* the context is there and has not been used up by delete
DcOpen == stream # <<>> /\ stream[Len(stream)][1] # "delete"

\* a motion through the DeleteContext (Deref to the Buffer)
BufDcMotion == DcOpen /\ \E op \in DcMotions : BufStep(op)

\* DeleteContext::delete
BufDcDelete ==
    /\ BufReady /\ DcOpen
    /\ BufApply(Ret(dc_delete(stream[1][2], ctx.buf), FALSE), <<"delete", 0>>)

DeleteNext == BufStartDelete \/ BufDcMotion \/ BufDcDelete

SpecDelete == InitDelete /\ [][DeleteNext]_vars

\* the step is the call of delete
IsDelete == Len(stream') > Len(stream) /\ stream'[Len(stream')][1] = "delete"

\* the left and the right one of the positions p and q
LeftOf(p, q) == IF p.byte_pos <= q.byte_pos THEN p ELSE q

RightOf(p, q) == IF p.byte_pos <= q.byte_pos THEN q ELSE p

\* the text s without the characters from byte offset lo up to byte offset hi
Cut(s, lo, hi) == SubSeq(s, 1, char_index(s, lo)) \o SubSeq(s, char_index(s, hi) + 1, Len(s))

\* C21: delete() of a DeleteContext started at P, with the cursor now at Q,
\* removes exactly the characters between the left and the right one of P and
\* Q, leaves the other text unchanged and the cursor at the left one
C21_DeleteRegion ==
    [][IsDelete =>
          /\ ctx'.buf.fault = "none"
          /\ ctx'.buf.front_buf =
                 Cut(ctx.buf.front_buf, LeftOf(stream[1][2].start_pos, ctx.buf.pos).byte_pos,
                     RightOf(stream[1][2].start_pos, ctx.buf.pos).byte_pos)
          /\ ctx'.buf.pos = LeftOf(stream[1][2].start_pos, ctx.buf.pos)]_vars

----------------------------------------------------------------------------
(* buffer.rs: character search                                              *)

\* the longest text searched
MaxSearchText == 3

\* the largest count of a search
MaxSearchCount == 2

\* the most calls of the search specification
MaxSearchOps == 3

\* the characters of the texts searched: 'a', 'b' and a double-width character
SearchChars == {97, 98, 19990}

\* a text with the cursor at its start
InitSearch ==
    \E s \in SeqsUpTo(SearchChars, MaxSearchText) :
        BufInit(move_start(replace(NewBuffer, s)), MaxSearchOps)

\* Buffer::move_to_char_right with the target c and the count n
BufSearchRight ==
    /\ BufReady
    /\ \E c \in SearchChars, n \in 1..MaxSearchCount :
          BufApply(move_to_char_right(ctx.buf, c, n), <<"move_to_char_right", <<c, n>>>>)

\* Buffer::move_to_char_left with the target c and the count n
BufSearchLeft ==
    /\ BufReady
    /\ \E c \in SearchChars, n \in 1..MaxSearchCount :
          BufApply(move_to_char_left(ctx.buf, c, n), <<"move_to_char_left", <<c, n>>>>)

SearchNext == BufMoveRight \/ BufMoveEnd \/ BufSearchRight \/ BufSearchLeft

SpecSearch == InitSearch /\ [][SearchNext]_vars

\* the call made by the step
NewCall == stream'[Len(stream')]

\* the step is a character search
IsSearch ==
    Len(stream') > Len(stream) /\ NewCall[1] \in {"move_to_char_right", "move_to_char_left"}

\* the number of characters of the text before the cursor
CharsBefore == char_index(ctx.buf.front_buf, ctx.buf.pos.byte_pos)

\* the indices (from 1) of the occurrences of c strictly after the character
\* under the cursor, respectively before the cursor
Targets(op, c) ==
    {j \in 1..Len(ctx.buf.front_buf) :
        /\ ctx.buf.front_buf[j] = c
        /\ IF op = "move_to_char_right" THEN j > CharsBefore + 1 ELSE j <= CharsBefore}

\* the occurrences that are the n-th one counted away from the cursor (one or
\* none)
NthTarget(op, c, n) ==
    {j \in Targets(op, c) :
        Cardinality({x \in Targets(op, c) :
                        IF op = "move_to_char_right" THEN x <= j ELSE x >= j}) = n}

\* the outcome the sentence requires of the search for the targets T
SearchOutcome(T) ==
    /\ ctx'.buf.front_buf = ctx.buf.front_buf
    /\ ctx'.buf.fault = "none"
    /\ res'.val = (T # {})
    /\ IF T = {} THEN ctx'.buf.pos = ctx.buf.pos
       ELSE \A j \in T : ctx'.buf.pos.byte_pos = str_len(SubSeq(ctx.buf.front_buf, 1, j - 1))

\* C22: move_to_char_right(c, n) and move_to_char_left(c, n) move the cursor
\* onto the n-th occurrence of c strictly after, respectively before, the
\* cursor and return true; with fewer occurrences they return false and leave
\* the cursor where it was; the text is never changed
C22_CharSearch ==
    [][IsSearch => SearchOutcome(NthTarget(NewCall[1], NewCall[2][1], NewCall[2][2]))]_vars

----------------------------------------------------------------------------
(* edit.rs: Instr::ReplaceAtCursor                                          *)

\* the longest line of the replace specification, in characters
MaxReplText == 3

\* the most bytes of one read of the replace specification: one whole
\* character of three bytes
ReplChunk == 3

\* the UTF-8 encodings of 'a' and of the double-width character U+4E16
ReplUnits == {<<97>>, <<228, 184, 150>>}

RECURSIVE Flatten(_)
\* the concatenation of a sequence of byte sequences
Flatten(ss) == IF ss = <<>> THEN <<>> ELSE Head(ss) \o Flatten(Tail(ss))

\* no count, 2 or 3
ReplCounts == {<<>>, <<50>>, <<51>>}

\* Vi mode with the UTF-8 decoder: a line is typed, Esc, h to any character, a
\* count or none, r, the replacement character and possibly Enter
InitReplace ==
    \E t \in SeqsUpTo(ReplUnits, MaxReplText), n \in ReplCounts, x \in ReplUnits,
       e \in SeqsUpTo({13}, 1) :
        \E k \in 0..Len(t) :
            RunInit(<<>>, "UTF_8", "Vi",
                    Flatten(t) \o <<27>> \o Repl(104, k) \o n \o <<114>> \o x \o e, ReplChunk)

SpecReplace == InitReplace /\ [][Next]_vars

\* C23: no input makes an arithmetic check fail: the column arithmetic of
\* Position (increase_by_char, decrease_by_str as used by
\* replace_chars_at_cursor and the deletions) never overflows or underflows,
\* and no input ends in a panic
C23_NoArithmeticFault == ctx.buf.fault # "panic" /\ ~(res.kind = "Fault" /\ res.val = "panic")

----------------------------------------------------------------------------
(* edit.rs: the Vi commands made of a count, an operator and a motion       *)

\* the longest line of the command specification
MaxCmdText == 3

\* the motions of one key: h, l, 0, $, w, W, b, B, e, E
MotionKeys == {104, 108, 48, 36, 119, 87, 98, 66, 101, 69}

\* the targets of the character searches: 'a', '.', and 'z', which no line holds
SearchTargets == {97, 46, 122}

\* no count, 2, or 10
CmdCounts == {<<>>, <<50>>, <<49, 48>>}

\* the keys of a motion: one key, or a character-search key and its target
CmdMotions ==
    {<<k>> : k \in MotionKeys} \cup {<<k, x>> : k \in CharSearchKeys, x \in SearchTargets}

\* Vi mode, one byte per read: a line is typed, Esc, h to any character, no
\* operator or d or c, a count or none, a motion
InitViCmd ==
    \E t \in SeqsUpTo(WordChars, MaxCmdText), op \in {<<>>, <<100>>, <<99>>},
       n \in CmdCounts, mo \in CmdMotions :
        \E k \in 0..Len(t) :
            RunInit(<<>>, "ASCII", "Vi", t \o <<27>> \o Repl(104, k) \o op \o n \o mo, 1)

SpecViCmd == InitViCmd /\ [][Next]_vars

\* the pending token is a one-key motion: 0 is one when no count is pending
MotionNext ==
    \E ch \in MotionKeys : TextNext(ch) /\ (ch = 48 => ctx.vi_count = u32_of(0))

\* the pending token is the target of a character search
TargetNext == \E ch \in SearchTargets : TextNext(ch)

\* the step completes a command of an operator and a motion
OperatorCompletes ==
    /\ pc = "edit"
    /\ \/ ctx.vi_mode.m \in {"Delete", "Change"} /\ MotionNext
       \/ ctx.vi_mode.m \in {"DeleteMoveChar", "ChangeMoveChar"} /\ TargetNext

\* C24: after a completed command of d or c, an optional count and a motion
\* (h, l, 0, $, w, W, b, B, e, E, or f, F, t, T and a character), whether or
\* not the motion moved the cursor, the sub-mode is Normal for d and Insert
\* for c, and the pending count is 0
C24_OperatorLeavesMode ==
    [][OperatorCompletes =>
          /\ ctx'.vi_mode = ViMode(IF ctx.vi_mode.m \in {"Delete", "DeleteMoveChar"}
                                   THEN "Normal" ELSE "Insert")
          /\ ctx'.vi_count = u32_of(0)]_vars

\* the line typed before Esc
TypedLine == SubSeq(stream, 1, Len(stream) - Len(After(stream, 27)) - 1)

\* c, the count 2 and a search for a character the line does not hold have
\* left the line as typed, in Insert sub-mode
C24_Witness ==
    /\ pc = "prompt" /\ io.input = <<>> /\ ctx.seq = <<>>
    /\ Len(stream) >= 5
    /\ SubSeq(stream, Len(stream) - 3, Len(stream)) = <<99, 50, 116, 122>>
    /\ ctx.buf.front_buf = TypedLine /\ TypedLine # <<>>
    /\ ctx.vi_mode = ViMode("Insert") /\ ctx.vi_count = u32_of(0)


\* the Buffer search behind a character-search sub-mode
SearchOp(k) == IF k \in {"Right", "BeforeRight"} THEN "move_to_char_right" ELSE "move_to_char_left"

\* the step runs a delete or change character search whose target ch occurs
\* fewer times in the search direction than the count asks for
OperatorSearchFails ==
    /\ pc = "edit"
    /\ ctx.vi_mode.m \in {"DeleteMoveChar", "ChangeMoveChar"}
    /\ \E ch \in SearchTargets :
          TextNext(ch) /\ Cardinality(Targets(SearchOp(ctx.vi_mode.k), ch)) < char_count(ctx)

\* C25: a delete or change character search (d or c, an optional count n,
\* then f, F, t or T and a target) whose target does not occur the required
\* number of times in the search direction leaves the text and the cursor
\* unchanged
C25_FailedSearchKeepsLine ==
    [][OperatorSearchFails =>
          ctx'.buf.front_buf = ctx.buf.front_buf /\ ctx'.buf.pos = ctx.buf.pos]_vars


\* the delete or change search is one of F, t, T
OperatorSearchFailsNotF == OperatorSearchFails /\ ctx.vi_mode.k # "Right"

\* the failed searches other than f leave the text and the cursor unchanged
FailedSearchKeepsLineNotF ==
    [][OperatorSearchFailsNotF =>
          ctx'.buf.front_buf = ctx.buf.front_buf /\ ctx'.buf.pos = ctx.buf.pos]_vars


\* the motions a count repeats: h, l, w, W, b, B, e, E
RepeatKeys == {104, 108, 119, 87, 98, 66, 101, 69}

\* the context after the key ch was handled in Normal sub-mode with no count
\* pending
uncounted(c, ch) ==
    apply_instr([c EXCEPT !.vi_count = u32_of(0)],
                interpret_token(Text(<<ch>>), c.mode, ViMode("Normal"))).c

RECURSIVE uncounted_times(_, _, _)
\* the context after the key ch was handled n times, each time with no count
uncounted_times(c, ch, n) ==
    IF n = 0 THEN c ELSE uncounted_times(uncounted(c, ch), ch, n - 1)

\* the step handles the motion ch in Normal sub-mode
NormalMotion(ch) == pc = "edit" /\ ctx.vi_mode = ViMode("Normal") /\ TextNext(ch)

\* where n steps to the left, respectively to the right, take the cursor of a
\* line of one-byte characters: no further than the first and the last one
StepsLeft(n) == IF ctx.buf.pos.byte_pos > n THEN ctx.buf.pos.byte_pos - n ELSE 0

StepsRight(n) ==
    IF ctx.buf.pos.byte_pos + n < Len(ctx.buf.front_buf) THEN ctx.buf.pos.byte_pos + n
    ELSE IF ctx.buf.front_buf = <<>> THEN 0 ELSE Len(ctx.buf.front_buf) - 1

\* C26: in Normal sub-mode a motion h, l, w, W, b, B, e or E with the pending
\* count n is applied once when n = 0 and otherwise as the n-fold repetition
\* of the motion (3h equals hhh, 2w equals ww), which stops at the line
\* boundary and keeps the progress made; the count is 0 afterwards
C26_CountRepeatsMotion ==
    [][\A ch \in RepeatKeys :
          NormalMotion(ch) =>
              /\ ctx'.buf = uncounted_times(ctx, ch, char_count(ctx)).buf
              /\ (ch = 104 => ctx'.buf.pos.byte_pos = StepsLeft(char_count(ctx)))
              /\ (ch = 108 => ctx'.buf.pos.byte_pos = StepsRight(char_count(ctx)))
              /\ ctx'.vi_mode = ViMode("Normal")
              /\ ctx'.vi_count = u32_of(0)]_vars

\* the count 10 and l on a line of three characters have taken the cursor
\* from the first character to the last
C26_Witness ==
    /\ pc = "prompt" /\ io.input = <<>> /\ ctx.seq = <<>>
    /\ Len(TypedLine) = 3
    /\ After(stream, 27) = <<104, 104, 104, 49, 48, 108>>
    /\ ctx.buf.front_buf = TypedLine /\ ctx.buf.pos.byte_pos = 2
    /\ ctx.vi_count = u32_of(0)

----------------------------------------------------------------------------
(* edit.rs: Instr::HistoryPrev and Instr::HistoryNext with a count          *)

\* the most entries of the history browsed with a count
MaxCountHistory == 3

\* the most history keys pressed before the counted one
MaxCountKeys == 2

\* Vi mode, one byte per read: a history, a live line or none, Esc, history
\* keys, then the count 2 or 3 and k or j
InitHistCount ==
    \E h \in SeqsUpTo(HistEntries, MaxCountHistory), l \in SeqsUpTo({97}, 1),
       ks \in SeqsUpTo({107, 106}, MaxCountKeys), n \in {50, 51}, key \in {107, 106} :
        RunInit(h, "ASCII", "Vi", l \o <<27>> \o ks \o <<n, key>>, 1)

SpecHistCount == InitHistCount /\ [][Next]_vars

\* the number of entries browsed back (0: no selection)
Selected == IF ctx.history_cursor.some THEN ctx.history_cursor.v + 1 ELSE 0

\* the step handles the history key in Normal sub-mode with a count pending
CountedHistory(key) ==
    /\ pc = "edit" /\ ctx.vi_mode = ViMode("Normal") /\ TextNext(key)
    /\ ctx.vi_count # u32_of(0)

\* the history cursor that shows the selection w
CursorOf(w) == IF w = 0 THEN None ELSE Some(w - 1)

\* C27: with a repeat count n >= 1, HistoryPrev and HistoryNext move the
\* history cursor by min(n, entries available) steps, as n presses of the key
\* without a count do, and the count is 0 afterwards
C27_CountRepeatsHistory ==
    [][\A key \in {107, 106} :
          CountedHistory(key) =>
              /\ ctx'.history_cursor =
                     CursorOf(Walk(Repl(key, loop_count(ctx.vi_count)), Len(ctx.history), Selected))
              /\ ctx'.vi_count = u32_of(0)]_vars


\* the pending token is the text of one character
OneCharNext(p) == p.r = "Ok" /\ p.token.t = "Text" /\ Len(p.token.text) = 1

\* the step replaces with one character in Replace sub-mode, the cursor on a
\* character of the line
ReplaceStep ==
    /\ pc = "edit" /\ ctx.vi_mode = ViMode("Replace")
    /\ OneCharNext(parse(ctx.seq, ctx.enc))
    /\ CharsBefore < Len(ctx.buf.front_buf)

\* the line s with the r characters after the first k replaced by x
Overwritten(s, k, r, x) == SubSeq(s, 1, k) \o Repl(x, r) \o SubSeq(s, k + r + 1, Len(s))

\* the outcome the sentence requires of replacing r characters with x
ReplaceOutcome(r, x) ==
    /\ ctx'.buf.fault = "none"
    /\ ctx'.buf.front_buf = Overwritten(ctx.buf.front_buf, CharsBefore, r, x)
    /\ ctx'.buf.pos.byte_pos = str_len(SubSeq(ctx'.buf.front_buf, 1, CharsBefore + r - 1))
    /\ ctx'.vi_count = u32_of(0)
    /\ ctx'.vi_mode = ViMode("Normal")

\* C28: r followed by a character x with the pending count n (0 counting as
\* 1) on a line with m >= 1 characters from the cursor to the end replaces
\* exactly min(n, m) characters from the cursor on with x, leaves the length
\* and the other characters unchanged, leaves the cursor on the last replaced
\* character, resets the count to 0 and returns to Normal sub-mode
C28_ReplaceWithCount ==
    [][ReplaceStep =>
          ReplaceOutcome(Min(char_count(ctx), Len(ctx.buf.front_buf) - CharsBefore),
                         parse(ctx.seq, ctx.enc).token.text[1])]_vars


\* the indices (from 1) of the last characters of the words of s
WordEnds(s) ==
    {j \in 1..Len(s) : ~is_whitespace(s[j])
                       /\ (j = Len(s) \/ CharClass(s[j + 1]) # CharClass(s[j]))}

\* the same for words delimited by whitespace
BigWordEnds(s) ==
    {j \in 1..Len(s) : ~is_whitespace(s[j]) /\ (j = Len(s) \/ is_whitespace(s[j + 1]))}

\* the greatest element of S below i, or 1 when there is none
PrevIn(S, i) ==
    IF {j \in S : j < i} = {} THEN 1 ELSE CHOOSE x \in S : x < i /\ \A y \in S : y < i => y <= x

RECURSIVE NthBack(_, _, _)
\* k times PrevIn from i
NthBack(S, i, k) == IF k = 0 THEN i ELSE NthBack(S, PrevIn(S, i), k - 1)

\* the line s after the operator with the motion key ch and n repetitions at
\* the cursor index i: the span between the cursor and the place the motion
\* reaches is deleted, through the last character of the word for e and E, up
\* to and without the character at its right end for the other keys
SpanDeleted(s, i, ch, n) ==
    CASE ch = 101 -> Without(s, i, NthIn(WordEnds(s), i, Len(s), n) + 1)
      [] ch = 69 -> Without(s, i, NthIn(BigWordEnds(s), i, Len(s), n) + 1)
      [] ch = 104 -> Without(s, IF i > n THEN i - n ELSE 1, i)
      [] ch = 108 -> Without(s, i, Min(i + n, Len(s) + 1))
      [] ch = 48 -> Without(s, 1, i)
      [] ch = 36 -> Without(s, i, Len(s) + 1)
      [] ch = 119 -> Without(s, i, NthIn(WordStarts(s), i, Len(s) + 1, n))
      [] ch = 87 -> Without(s, i, NthIn(BigWordStarts(s), i, Len(s) + 1, n))
      [] ch = 98 -> Without(s, NthBack(WordStarts(s), i, n), i)
      [] ch = 66 -> Without(s, NthBack(BigWordStarts(s), i, n), i)

\* the step handles the motion key ch in Delete or Change sub-mode
OperatorMotion(ch) ==
    /\ pc = "edit" /\ ctx.vi_mode.m \in {"Delete", "Change"} /\ TextNext(ch)
    /\ (ch = 48 => ctx.vi_count = u32_of(0))

\* cw and cW from a character that is not whitespace: the deleted span ends
\* before the place the motion reaches (where exactly is the matter of C8)
ChangeWordFromWord(ch) == ctx.vi_mode.m = "Change" /\ ch \in {119, 87} /\ OnNonBlank

\* C29: in Delete or Change sub-mode e and E are inclusive: the deleted span
\* runs from the cursor through the last character of the word the motion
\* reaches; h, l, 0, $, w, W, b, B delete exclusively of the character at the
\* far end of the span
C29_InclusiveEndOfWord ==
    [][\A ch \in MotionKeys :
          OperatorMotion(ch) =>
              IF ChangeWordFromWord(ch)
              THEN \E j \in CursorIndex..ChangeMotionEnd :
                      ctx'.buf.front_buf = Without(ctx.buf.front_buf, CursorIndex, j)
              ELSE ctx'.buf.front_buf =
                      SpanDeleted(ctx.buf.front_buf, CursorIndex, ch, char_count(ctx))]_vars

----------------------------------------------------------------------------
(* edit.rs: Instr::Digit                                                    *)

\* the step handles a digit in Normal, Delete or Change sub-mode
DigitStep == pc = "edit" /\ ctx.vi_mode.m \in CountModes /\ DigitNext

\* the digit is 0 and no count is pending: the motion to the start of the line
ZeroMotion == ctx.seq[1] = 48 /\ ctx.vi_count = u32_of(0)

\* 0 with no count pending has moved the cursor to the start of the line,
\* deleted the text before the cursor in Delete and Change, left the operator
\* sub-mode and left the count 0
ZeroMoves ==
    /\ ctx'.buf.front_buf = IF ctx.vi_mode.m = "Normal" THEN ctx.buf.front_buf
                            ELSE Without(ctx.buf.front_buf, 1, CursorIndex)
    /\ ctx'.buf.pos = Position(0, 0)
    /\ ctx'.vi_mode = ViMode(IF ctx.vi_mode.m = "Change" THEN "Insert" ELSE "Normal")
    /\ ctx'.vi_count = u32_of(0)

\* the digit has changed the count to n and nothing else
OnlyCount(n) ==
    ctx'.vi_count = n /\ ctx'.buf = ctx.buf /\ ctx'.vi_mode = ctx.vi_mode

\* C30 as stated: 0 with the pending count 0 moves the cursor to the start of
\* the line (deleting the spanned text and leaving the operator sub-mode in
\* Delete and Change) and leaves the count 0; a digit 1-9, or 0 with a
\* non-zero count c, only changes the count, to 10*c + digit
C30_DigitAlwaysAccumulates ==
    [][DigitStep =>
          IF ZeroMotion THEN ZeroMoves
          ELSE OnlyCount(u32_mul10_add(ctx.vi_count, ctx.seq[1] - 48))]_vars

\* C30: 0 with the pending count 0 moves the cursor to the start of the line
\* (deleting the spanned text and leaving the operator sub-mode in Delete and
\* Change) and leaves the count 0; a digit 1-9, or 0 with a non-zero count c,
\* only changes the count: to 10*c + digit when that fits in a u32, and not at
\* all otherwise
C30_DigitHandling ==
    [][DigitStep =>
          IF ZeroMotion THEN ZeroMoves
          ELSE OnlyCount(IF Fits(ctx.vi_count, ctx.seq[1] - 48)
                         THEN u32_mul10_add(ctx.vi_count, ctx.seq[1] - 48)
                         ELSE ctx.vi_count)]_vars

\* d0 with the cursor on the b of "ab" deleted the a and ended in Normal
C30_Witness ==
    /\ pc = "prompt" /\ Consumed = <<97, 98, 27, 100, 48>>
    /\ ctx.buf.front_buf = <<98>> /\ ctx.buf.pos = Position(0, 0)
    /\ ctx.vi_mode = ViMode("Normal") /\ ctx.vi_count = u32_of(0)

----------------------------------------------------------------------------
(* edit.rs: Instr::NormalMode                                               *)

\* the longest line of the Esc specification, in characters
MaxEscText == 2

\* the keys that enter Insert sub-mode from Normal: i, I, a, A
InsertKeys == {105, 73, 97, 65}

\* the key sequences that lead to each Vi sub-mode, and those that lead back
\* to Insert
EscPrefixes == ModePrefixes \cup {<<27>> \o n \o <<k>> : n \in OptCount, k \in InsertKeys}

\* Vi mode with the UTF-8 decoder: a line is typed, keys lead to a sub-mode,
\* then Esc
InitEsc ==
    \E t \in SeqsUpTo(ReplUnits, MaxEscText), p \in EscPrefixes :
        RunInit(<<>>, "UTF_8", "Vi", Flatten(t) \o p \o <<27>>, ReplChunk)

SpecEsc == InitEsc /\ [][Next]_vars

\* the pending token is Esc in Vi mode
EscNext == pc = "edit" /\ ctx.mode = "Vi" /\ parse(ctx.seq, ctx.enc) = ParseSuccess(Tok("Esc"), 1)

\* the byte offset of the character before the cursor, 0 at the start
OneLeft ==
    IF CharsBefore = 0 THEN 0 ELSE str_len(SubSeq(ctx.buf.front_buf, 1, CharsBefore - 1))

\* C31: a new edit context starts in Vi sub-mode Insert with count 0; an Esc
\* token in any Vi sub-mode leaves the sub-mode Normal with count 0 and the
\* text unchanged; the cursor moves one grapheme left only when the sub-mode
\* before Esc was Insert, and stays when it is at the start
C31_EscToNormal ==
    /\ ctx.vi_mode = ViMode("Insert") /\ ctx.vi_count = u32_of(0)
    /\ [][EscNext =>
             /\ ctx'.vi_mode = ViMode("Normal") /\ ctx'.vi_count = u32_of(0)
             /\ ctx'.buf.front_buf = ctx.buf.front_buf
             /\ ctx'.buf.pos.byte_pos = IF ctx.vi_mode = ViMode("Insert") THEN OneLeft
                                        ELSE ctx.buf.pos.byte_pos]_vars

----------------------------------------------------------------------------
(* edit.rs: the cursor-motion instructions outside Normal sub-mode          *)

\* the longest line typed before the motion keys
MaxKeysText == 2

\* the most motion keys pressed
MaxMotionKeys == 2

\* Left, Right, Home, End: ESC [ D, ESC [ C, ESC [ H, ESC [ F
ArrowKeys == {<<27, 91, 68>>, <<27, 91, 67>>, <<27, 91, 72>>, <<27, 91, 70>>}

\* Ctrl-B, Ctrl-F, Ctrl-A, Ctrl-E
EmacsKeys == {<<2>>, <<6>>, <<1>>, <<5>>}

\* the motion keys of an editing mode
MotionKeysOf(m) == IF m = "Emacs" THEN ArrowKeys \cup EmacsKeys ELSE ArrowKeys

\* either editing mode, up to three bytes per read: a line is typed, motion
\* keys are pressed, then possibly x is typed and possibly Enter
InitKeys ==
    \E m \in {"Emacs", "Vi"}, t \in SeqsUpTo({97, 98}, MaxKeysText),
       x \in SeqsUpTo({120}, 1), e \in SeqsUpTo({13}, 1) :
        \E ks \in SeqsUpTo(MotionKeysOf(m), MaxMotionKeys) :
            RunInit(<<>>, "ASCII", m, t \o Flatten(ks) \o x \o e, ReplChunk)

SpecKeys == InitKeys /\ [][Next]_vars

\* the pending token is Left, Right, Home or End
ArrowNext ==
    \E k \in {"EscBracketD", "EscBracketC", "EscBracketH", "EscBracketF"} :
        parse(ctx.seq, ctx.enc) = ParseSuccess(Tok(k), 3)

\* C32: a cursor-motion instruction (Left, Right, Home, End) received while
\* the Vi sub-mode is Insert leaves the sub-mode Insert, so that text typed
\* afterwards is still inserted
C32_ArrowKeepsInsert ==
    [][(pc = "edit" /\ ctx.mode = "Vi" /\ ctx.vi_mode = ViMode("Insert") /\ ArrowNext) =>
          ctx'.vi_mode = ViMode("Insert")]_vars


\* the pending token is Ctrl-E or End
EndNext ==
    \E k \in {"CtrlE", "EscBracketF"}, n \in {1, 3} :
        parse(ctx.seq, ctx.enc) = ParseSuccess(Tok(k), n)

\* C33: in Emacs mode the Vi sub-mode has no effect: after any sequence of
\* tokens, Ctrl-E or End places the cursor after the last character
\* (exclude_eol never takes effect), so that text typed afterwards is
\* appended at the end of the line
C33_EmacsEndIsPastLast ==
    [][(pc = "edit" /\ ctx.mode = "Emacs" /\ EndNext) =>
          /\ ctx'.buf.front_buf = ctx.buf.front_buf
          /\ ctx'.buf.pos.byte_pos = str_len(ctx.buf.front_buf)]_vars

----------------------------------------------------------------------------
(* edit.rs: Instr::Insert, InsertStart, Append, AppendEnd after a count     *)

\* the longest line of the insert specification
MaxInsText == 3

\* Vi mode, one byte per read: a line is typed, Esc, a count or none, one of
\* i, I, a, A, then possibly Backspace
InitInsert ==
    \E t \in SeqsUpTo({97, 98}, MaxInsText), n \in OptCount, k \in InsertKeys,
       d \in SeqsUpTo({127}, 1) :
        RunInit(<<>>, "ASCII", "Vi", t \o <<27>> \o n \o <<k>> \o d, 1)

SpecInsert == InitInsert /\ [][Next]_vars

\* the pending token is Backspace
BackspaceNext == parse(ctx.seq, ctx.enc) = ParseSuccess(Tok("Backspace"), 1)

\* C34: whenever the Vi sub-mode is Insert the pending count is 0, so that
\* Backspace in Insert sub-mode acts exactly once, also when Insert was
\* entered through i, I, a or A typed after a count
C34_InsertHasNoCount ==
    /\ [](ctx.vi_mode = ViMode("Insert") => ctx.vi_count = u32_of(0))
    /\ [][(pc = "edit" /\ ctx.vi_mode = ViMode("Insert") /\ BackspaceNext) =>
             Len(ctx'.buf.front_buf) >= Len(ctx.buf.front_buf) - 1]_vars

----------------------------------------------------------------------------
(* run.rs: run_edit asks for input after every cycle that does not halt     *)

\* a complete token is at the head of the pending sequence
TokenPending == parse(ctx.seq, ctx.enc).r = "Ok"

\* C35: pending tokens are processed without further input: the loop never
\* asks the input source for bytes, and never ends with an error of the
\* input source, while a complete token is pending
C35_PendingNeedsNoInput ==
    [](TokenPending => /\ pc # "prompt"
                       /\ ~(pc = "done" /\ res.kind = "Err"))

----------------------------------------------------------------------------
(* parser.rs: parse on windows of bytes that begin an escape sequence       *)

\* the longest window of arbitrary bytes
MaxWindow == 4

\* the bytes of the windows: ESC, `[`, `3`, `2`, `~`, `A`, `H`, Enter
WindowBytes == {27, 91, 51, 50, 126, 65, 72, 13}

\* the final bytes of the three-byte sequences: A, B, C, D, F, H
FinalBytes == {65, 66, 67, 68, 70, 72}

\* the control bytes with a token of their own other than Esc
ControlBytes == (0..26) \cup {127}

\* the windows parse is applied to: every sequence of WindowBytes, and every
\* escape sequence and every control byte alone or followed by one byte
Windows ==
    SeqsUpTo(WindowBytes, MaxWindow)
        \cup {<<27, 91, l>> \o t : l \in FinalBytes, t \in SeqsUpTo(WindowBytes, 1)}
        \cup {<<27, 91, 51, 126>> \o t : t \in SeqsUpTo(WindowBytes, 1)}
        \cup {<<c>> \o t : c \in ControlBytes, t \in SeqsUpTo(WindowBytes, 1)}

\* stream holds the window, res the ParseResult once parse has returned
InitParse ==
    /\ ctx = NewEditCtx(<<>>, "UTF_8", "Emacs")
    /\ io = [input |-> <<>>, chunk |-> 1]
    /\ stream \in Windows
    /\ pc = "parse"
    /\ res = [kind |-> "None"]

\* parse(&ctx.seq, ctx.enc) on the window
ParseStep ==
    /\ pc = "parse"
    /\ res' = parse(stream, ctx.enc)
    /\ pc' = "parsed"
    /\ UNCHANGED <<ctx, io, stream>>

ParseNext == ParseStep

SpecParse == InitParse /\ [][ParseNext]_vars

\* the window begins with the bytes p
Begins(p) == Len(stream) >= Len(p) /\ SubSeq(stream, 1, Len(p)) = p

\* the token of the three-byte sequence ending in l and what it stands for
FinalToken(l) ==
    CASE l = 65 -> [t |-> "EscBracketA", i |-> "HistoryPrev"]
      [] l = 66 -> [t |-> "EscBracketB", i |-> "HistoryNext"]
      [] l = 67 -> [t |-> "EscBracketC", i |-> "MoveCursorRight"]
      [] l = 68 -> [t |-> "EscBracketD", i |-> "MoveCursorLeft"]
      [] l = 72 -> [t |-> "EscBracketH", i |-> "MoveCursorStart"]
      [] l = 70 -> [t |-> "EscBracketF", i |-> "MoveCursorEnd"]

\* the token stands for the instruction i in Emacs mode and in Vi mode
StandsFor(token, i) == emacs_mode(token) = Instr(i) /\ vi_common(token) = Instr(i)

\* the name of the token of the control byte c
ControlToken(c) == IF c = 127 THEN "Backspace" ELSE HeadNames[c + 1]

\* C36: ESC [ A/B/C/D/H/F parses as the token for up, down, right, left,
\* home, end with 3 bytes consumed and ESC [ 3 ~ as forward-delete with 4,
\* whatever follows; the windows ESC [ and ESC [ 3 are Incomplete; ESC [
\* digit x other than 3 ~ is an error of 4 bytes; a control byte 0-26 or 127
\* parses as its named token with 1 byte consumed
C36_EscapeSequences ==
    pc = "parsed" =>
        /\ \A l \in FinalBytes :
              Begins(<<27, 91, l>>) =>
                  /\ res = ParseSuccess(Tok(FinalToken(l).t), 3)
                  /\ StandsFor(res.token, FinalToken(l).i)
        /\ Begins(<<27, 91, 51, 126>>) =>
              /\ res = ParseSuccess(Tok("EscBracket3T"), 4)
              /\ StandsFor(res.token, "DeleteCharRightOfCursor")
        /\ (stream \in {<<27, 91>>, <<27, 91, 51>>}) => res = Incomplete
        /\ (/\ Begins(<<27, 91>>) /\ Len(stream) >= 4 /\ stream[3] \in 48..57
            /\ <<stream[3], stream[4]>> # <<51, 126>>) => res = ParseError(4)
        /\ (stream # <<>> /\ stream[1] \in ControlBytes) =>
              /\ res = ParseSuccess(Tok(ControlToken(stream[1])), 1)
              /\ stream[1] = 9 => res.token.t = "Tab"
              /\ stream[1] = 13 => res.token.t = "Enter"
              /\ stream[1] = 127 => res.token.t = "Backspace"

\* forward-delete was recognised with a byte following it
C36_Witness ==
    /\ pc = "parsed" /\ stream = <<27, 91, 51, 126, 65>>
    /\ res = ParseSuccess(Tok("EscBracket3T"), 4)

----------------------------------------------------------------------------
(* buffer.rs: exclude_eol                                                   *)

\* the longest text of the exclude_eol specification
MaxEolText == 3

\* the most calls made on one text
MaxEolOps == 4

\* a text of any characters with the cursor at its end (Buffer::replace)
InitEol ==
    \E s \in SeqsUpTo(BufChars, MaxEolText) : BufInit(replace(NewBuffer, s), MaxEolOps)

\* Buffer::exclude_eol
BufExcludeEol == BufReady /\ BufApply(exclude_eol(ctx.buf), <<"exclude_eol", 0>>)

\* the calls of the test exclude_eol
EolNext == BufMoveLeft \/ BufMoveRight \/ BufExcludeEol

SpecEol == InitEol /\ [][EolNext]_vars

\* the step is a call of exclude_eol
IsExcludeEol == Len(stream') > Len(stream) /\ NewCall[1] = "exclude_eol"

\* the cursor of b is one past the last character of a non-empty line
AtEol(b) == b.front_buf # <<>> /\ b.pos.byte_pos = str_len(b.front_buf)

\* the byte offset of the last grapheme of the non-empty text s
LastGrapheme(s) == str_len(s) - str_len(graphemes(s)[Len(graphemes(s))])

\* C37: exclude_eol moves the cursor back by one grapheme exactly when it is
\* one past the last character of a non-empty line and leaves it where it is
\* otherwise; a second call never moves the cursor; the text is never changed
C37_ExcludeEol ==
    [][IsExcludeEol =>
          /\ ctx'.buf.fault = "none"
          /\ ctx'.buf.front_buf = ctx.buf.front_buf
          /\ ctx'.buf.pos.byte_pos = IF AtEol(ctx.buf) THEN LastGrapheme(ctx.buf.front_buf)
                                     ELSE ctx.buf.pos.byte_pos
          /\ exclude_eol(ctx'.buf).b = ctx'.buf]_vars

----------------------------------------------------------------------------
(* buffer.rs: the value move_word and move_word_ws return                   *)

\* the step is a call of move_word or move_word_ws
IsWordForward == Len(stream') > Len(stream) /\ NewCall[1] \in {"move_word", "move_word_ws"}

\* C38: move_word and move_word_ws return whether any movement happened:
\* false only when the cursor did not move, true whenever its position changed
C38_ReturnsMoved ==
    [][IsWordForward => (res'.val <=> ctx'.buf.pos # ctx.buf.pos)]_vars

\* C38 (amended): move_word and move_word_ws return whether the cursor stopped
\* on a character: true only when the cursor moved and rests before the end of
\* the buffer, false exactly when it is at the end of the buffer afterwards,
\* whether it moved there or was there already
C38_ReturnsWordFound ==
    [][IsWordForward =>
          /\ ctx'.buf.fault = "none"
          /\ res'.val <=> ctx'.buf.pos.byte_pos < str_len(ctx.buf.front_buf)
          /\ res'.val => ctx'.buf.pos # ctx.buf.pos]_vars

\* ".a": move_word from the dot stops on the letter and returns true, a
\* second call moves to the end of the buffer and returns false
C38_Witness ==
    /\ ctx.buf.front_buf = <<46, 97>>
    /\ stream = <<<<"move_to_pos", 0>>, <<"move_word", 0>>, <<"move_word", 0>>>>
    /\ res.val = FALSE /\ ctx.buf.pos = Position(2, 2)

----------------------------------------------------------------------------
(* parser.rs: parse_cursor_pos; run.rs: query_cursor_pos                    *)

RECURSIVE digit_run(_, _)
\* iter().skip(off).take_while(|&c| c >= 48 && c < 58): the digits of vec from
\* offset off on
digit_run(vec, off) ==
    IF off >= Len(vec) \/ vec[off + 1] < 48 \/ vec[off + 1] >= 58 THEN <<>>
    ELSE <<vec[off + 1]>> \o digit_run(vec, off + 1)

RECURSIVE fold_digits(_, _)
\* the fold of parse_number over the digits d from the accumulator acc = (x, n)
fold_digits(acc, d) ==
    IF d = <<>> THEN acc
    ELSE fold_digits([x |-> acc.x * 10 + (Head(d) - 48), n |-> acc.n + 1], Tail(d))

\* parse_number: the value and the number of the digits at offset off
parse_number(vec, off) == fold_digits([x |-> 0, n |-> 0], digit_run(vec, off))

\* filter_result with the closure |i| i == expected
filter_result(r, expected) ==
    IF r.r # "Ok" THEN r
    ELSE IF r.token = expected THEN ParseSuccess(<<>>, r.len)
    ELSE ParseError(r.len)

\* the last two fields of parse_cursor_pos, the row y of n digits being read
parse_cursor_pos_col(vec, y, n, x) ==
    LET s == filter_result(parse_char(vec, 2 + n), 59)
        e == filter_result(parse_char(vec, 3 + n + x.n), 82)
    IN  IF s.r # "Ok" THEN s
        ELSE IF e.r # "Ok" THEN e
        ELSE ParseSuccess(<<x.x, y>>, 4 + n + x.n)

\* parse_cursor_pos that takes the first number for the column
parse_cursor_pos_swapped(vec) ==
    LET a == filter_result(parse_char(vec, 0), 27)
        b == filter_result(parse_char(vec, 1), 91)
        y == parse_number(vec, 2)
        r == parse_cursor_pos_col(vec, y.x, y.n, parse_number(vec, 3 + y.n))
    IN  IF a.r # "Ok" THEN a
        ELSE IF b.r # "Ok" THEN b
        ELSE IF r.r # "Ok" THEN r
        ELSE ParseSuccess(<<r.token[2], r.token[1]>>, r.len)

\* parse_cursor_pos
parse_cursor_pos(vec) ==
    LET a == filter_result(parse_char(vec, 0), 27)
        b == filter_result(parse_char(vec, 1), 91)
        y == parse_number(vec, 2)
    IN  IF a.r # "Ok" THEN a
        ELSE IF b.r # "Ok" THEN b
        ELSE parse_cursor_pos_col(vec, y.x, y.n, parse_number(vec, 3 + y.n))

\* the most bytes of the input after ESC and `[`
MaxReplyTail == 5

\* the bytes of the input after ESC and `[`: the digits 2 and 4, `;`, `R`
ReplyBytes == {50, 52, 59, 82}

\* query_cursor_pos after the request was written: seq is empty, the terminal
\* will send the bytes of io.input
InitQuery ==
    /\ ctx = NewEditCtx(<<>>, "UTF_8", "Emacs")
    /\ \E h \in SeqsUpTo({27, 91}, 2), t \in SeqsUpTo(ReplyBytes, MaxReplyTail) :
          /\ io = [input |-> h \o t, chunk |-> 1]
          /\ stream = h \o t
    /\ pc = "query"
    /\ res = [kind |-> "None"]

\* query_cursor_pos: the match on the result r of parse_cursor_pos(&seq)
QueryResult(r) ==
    IF r.r = "Ok" THEN pc' = "queried" /\ res' = Ok(r.token)
    ELSE IF r.r = "Error" THEN pc' = "queried" /\ res' = Err("ParseError")
    ELSE pc' = "read_byte" /\ res' = res

\* query_cursor_pos: `match parse_cursor_pos(&seq)`
QueryParse ==
    /\ pc = "query"
    /\ QueryResult(parse_cursor_pos(ctx.seq))
    /\ UNCHANGED <<ctx, io, stream>>

\* query_cursor_pos: io.read_byte() returned a byte, which is pushed on seq
QueryRead ==
    /\ pc = "read_byte" /\ io.input # <<>>
    /\ ctx' = [ctx EXCEPT !.seq = Append(ctx.seq, Head(io.input))]
    /\ io' = [io EXCEPT !.input = Tail(io.input)]
    /\ pc' = "query"
    /\ UNCHANGED <<res, stream>>

\* query_cursor_pos: io.read_byte() failed, try! returns the error
QueryEof ==
    /\ pc = "read_byte" /\ io.input = <<>>
    /\ res' = Err("EndOfFile")
    /\ pc' = "queried"
    /\ UNCHANGED <<ctx, io, stream>>

QueryNext == QueryParse \/ QueryRead \/ QueryEof

SpecQuery == InitQuery /\ [][QueryNext]_vars


\* the bytes i..j of w are digits
Digits(w, i, j) == \A k \in i..j : w[k] \in 48..57

RECURSIVE Decimal(_)
\* the number the digits d write
Decimal(d) == IF d = <<>> THEN 0 ELSE Decimal(SubSeq(d, 1, Len(d) - 1)) * 10 + (d[Len(d)] - 48)

\* w is ESC [ row ; col R with the `;` at index s and a digit or more on
\* either side
ReplyWith(w, s) ==
    /\ Len(w) >= 6 /\ w[1] = 27 /\ w[2] = 91 /\ w[Len(w)] = 82
    /\ s \in 4..(Len(w) - 2) /\ w[s] = 59
    /\ Digits(w, 3, s - 1) /\ Digits(w, s + 1, Len(w) - 1)

\* w is a proper prefix of a reply: what has arrived of ESC, `[`, the digits of
\* the row, `;` and the digits of the column, the first digit of a number
\* following `[` or `;`
ReplyPrefix(w) ==
    \/ w \in {<<>>, <<27>>, <<27, 91>>}
    \/ /\ Len(w) >= 3 /\ w[1] = 27 /\ w[2] = 91
       /\ \/ Digits(w, 3, Len(w))
          \/ \E s \in 4..Len(w) : w[s] = 59 /\ Digits(w, 3, s - 1) /\ Digits(w, s + 1, Len(w))

RECURSIVE Unexpected(_, _, _)
\* the index (from 1) of the first byte of w from index i on that is neither a
\* digit of a number nor the byte expected in its place (ESC, `[`, then `;`
\* after the row and `R` after the column), or 0 when there is none
Unexpected(w, i, field) ==
    IF i > Len(w) \/ field = "end" THEN 0
    ELSE IF field = "esc" THEN (IF w[i] = 27 THEN Unexpected(w, i + 1, "bracket") ELSE i)
    ELSE IF field = "bracket" THEN (IF w[i] = 91 THEN Unexpected(w, i + 1, "row") ELSE i)
    ELSE IF w[i] \in 48..57 THEN Unexpected(w, i + 1, field)
    ELSE IF field = "row" THEN (IF w[i] = 59 THEN Unexpected(w, i + 1, "col") ELSE i)
    ELSE IF w[i] = 82 THEN Unexpected(w, i + 1, "end") ELSE i

\* the claim for the result r of parse_cursor_pos on the bytes w
CursorPosResult(w, r) ==
    /\ \A s \in 1..Len(w) :
          ReplyWith(w, s) =>
              r = ParseSuccess(<<Decimal(SubSeq(w, s + 1, Len(w) - 1)),
                                 Decimal(SubSeq(w, 3, s - 1))>>, Len(w))
    /\ ReplyPrefix(w) => r = Incomplete
    /\ Unexpected(w, 1, "esc") # 0 => r = ParseError(Unexpected(w, 1, "esc"))
    /\ r.r = "Error" => Unexpected(w, 1, "esc") # 0

====
